---------------------------- MODULE Spec2Model ----------------------------
(***************************************************************************)
(* Model of the PureBasic indentation formatter of pb-lang-support         *)
(* (server/providers/formatting-provider.ts), of the ProjectManager of the *)
(* server and of the ProjectService of pb-project-files.                   *)
(*                                                                         *)
(* A string is the sequence of its UTF-16 code units, as String.length,    *)
(* indexing, trim, split and the regular expressions of the source see     *)
(* it.  Str("If x") is the string of a literal.  The text of a document    *)
(* is one string; its lines are text.split('\n').                          *)
(* Line numbers and characters of positions are 0-based as in the source;  *)
(* sequences are 1-based.                                                  *)
(***************************************************************************)
EXTENDS Integers, Sequences, FiniteSets, Bags, TLC

VARIABLES
    text,              \* document.getText()
    pc,                \* "idle" | "formatting" | "done" | "threw"
    request,           \* the request being served (kind, range, options)
    options,           \* mergeOptions(params.options)
    replaceRange,      \* fullRange, respectively expandedRange
    initialState,      \* handleDocumentRangeFormatting: initialState
    lines,             \* formatPureBasicCode: lines
    i,                 \* formatPureBasicCode: loop index
    out,               \* formatPureBasicCode: out
    indentLevel,       \* formatPureBasicCode: indentLevel
    inSelect,          \* formatPureBasicCode: inSelect
    selectBaseIndent,  \* formatPureBasicCode: selectBaseIndent
    caseActive,        \* formatPureBasicCode: caseActive
    edits,             \* the TextEdit[] the handler returned
    documents,         \* the open TextDocuments of the server: uri -> text
    managerProjects,   \* ProjectManager.projects, in insertion order
    managerFileToProject, \* ProjectManager.fileToProject
    disk,              \* the .pbp files of the workspace: path -> content
    serviceProjects,   \* ProjectService.projects, in insertion order
    serviceFileToProject, \* ProjectService.fileToProject
    activeProjectFile, \* ProjectService.activeProjectFile
    activeTargetName,  \* ProjectService.activeTargetName
    activeTextEditor,  \* vscode.window.activeTextEditor: the path of its file
    pbpWatcher,        \* ProjectService.pbpWatcher is set
    tasks,             \* the calls of async methods in flight, a bag
    fired,             \* the payloads the last step fired, in order
    lastStep           \* the handler step that ran last and its outcome

formatterVars ==
    <<text, pc, request, options, replaceRange, initialState, lines, i,
      out, indentLevel, inSelect, selectBaseIndent, caseActive, edits>>

managerVars == <<documents, managerProjects, managerFileToProject>>

serviceVars ==
    <<disk, serviceProjects, serviceFileToProject, activeProjectFile,
      activeTargetName, activeTextEditor, pbpWatcher, tasks, fired>>

vars == <<formatterVars, managerVars, serviceVars, lastStep>>

-----------------------------------------------------------------------------
(* Bounds of the model *)

MaxLines == 3

\* Largest indent level and largest tabSize the indent renderer is applied to
MaxLevel == 4

MaxTabSize == 4

MaxPrefix == 2

\* Deepest nesting of the well-nested documents
MaxDepth == 2

-----------------------------------------------------------------------------
(* Characters, words and regular-expression tests *)

Max(a, b) == IF a >= b THEN a ELSE b

Min(a, b) == IF a <= b THEN a ELSE b

\* The least and the greatest element of a non-empty set of integers
Least(S) == CHOOSE m \in S : \A n \in S : m <= n

Greatest(S) == CHOOSE m \in S : \A n \in S : m >= n

\* The printable ASCII characters in code order, U+0020 to U+007E without
\* the grave accent U+0060
Printable ==
    " !\"#$%&'()*+,-./0123456789:;<=>?@ABCDEFGHIJKLMNOPQRSTUVWXYZ[\\]^_abcdefghijklmnopqrstuvwxyz{|}~"

\* The UTF-16 code unit of a character given as a one-character literal
Ord ==
    [c \in {SubSeq(Printable, k, k) : k \in 1..Len(Printable)} |->
        LET k == CHOOSE n \in 1..Len(Printable) : SubSeq(Printable, n, n) = c
        IN  IF k <= 64 THEN 31 + k ELSE 32 + k]
    @@ ("\t" :> 9) @@ ("\n" :> 10) @@ ("\f" :> 12) @@ ("\r" :> 13)

\* A string literal as the sequence of its code units
Str(s) == [k \in 1..Len(s) |-> Ord[SubSeq(s, k, k)]]

\* The line feed, the separator of text.split('\n') and out.join('\n')
LF == Ord["\n"]

\* The 1-based positions of s, in order, that satisfy a test
Positions(s, Test(_)) == SelectSeq([k \in 1..Len(s) |-> k], Test)

\* The characters of s at the positions that satisfy a test
Filter(s, Test(_)) ==
    LET at == Positions(s, Test) IN [j \in 1..Len(at) |-> s[at[j]]]

\* String.prototype.split with a separator of one code unit
split(s, sep) ==
    LET at == Positions(s, LAMBDA k : s[k] = sep)
        n == Len(at)
        from(j) == IF j = 1 THEN 1 ELSE at[j - 1] + 1
        to(j) == IF j = n + 1 THEN Len(s) ELSE at[j] - 1
    IN  [j \in 1..(n + 1) |-> SubSeq(s, from(j), to(j))]

\* Array.prototype.join with a separator of one code unit
RECURSIVE join(_, _)
join(ls, sep) ==
    IF ls = <<>> THEN <<>>
    ELSE IF Len(ls) = 1 THEN ls[1]
    ELSE ls[1] \o <<sep>> \o join(Tail(ls), sep)

\* String.prototype.substring(a, b) for 0 <= a, b <= s.length
substring(s, a, b) == SubSeq(s, Min(a, b) + 1, Max(a, b))

\* What String.prototype.trim removes and \s matches: WhiteSpace and
\* LineTerminator of ECMAScript (tab, LF, VT, FF, CR, space, NBSP, U+1680,
\* U+2000..U+200A, U+2028, U+2029, U+202F, U+205F, U+3000, U+FEFF)
WhiteSpace ==
    {9, 10, 11, 12, 13, 32, 160, 5760, 8232, 8233, 8239, 8287, 12288, 65279}
        \cup (8192..8202)

\* \w, and the word characters of \b: [A-Za-z0-9_]
WordChars == (48..57) \cup (65..90) \cup {95} \cup (97..122)

IsWordChar(ch) == ch \in WordChars

\* The /i flag of a regular expression without the u flag: a letter of
\* the pattern matches its upper-case and its lower-case ASCII letter and
\* nothing else; two words match when they are equal after folding A-Z to
\* a-z.
Fold(w) ==
    [k \in 1..Len(w) |-> IF w[k] \in 65..90 THEN w[k] + 32 ELSE w[k]]

\* The keywords of the regular expressions of the formatter
FormatterWords ==
    {"Procedure", "ProcedureC", "ProcedureDLL", "ProcedureCDLL",
     "EndProcedure", "Module", "EndModule", "DeclareModule",
     "EndDeclareModule", "Structure", "EndStructure", "Interface",
     "EndInterface", "Enumeration", "EndEnumeration", "Macro", "EndMacro",
     "DataSection", "EndDataSection", "If", "Else", "ElseIf", "EndIf",
     "For", "ForEach", "Next", "While", "Wend", "Repeat", "Until", "ForEver",
     "With", "EndWith", "Select", "Case", "Default", "EndSelect",
     "CompilerIf", "CompilerElse", "CompilerElseIf", "CompilerEndIf",
     "CompilerSelect", "CompilerEndSelect"}

Folded == [w \in FormatterWords |-> Fold(Str(w))]

\* A keyword of a regular expression, folded
Keyword(w) == Folded[w]

\* The string s from its 1-based position k on
From(s, k) == SubSeq(s, k, Len(s))

\* The string t stands in s at the 1-based position k
At(s, t, k) ==
    /\ k >= 1 /\ k + Len(t) - 1 <= Len(s)
    /\ \A j \in 1..Len(t) : s[k + j - 1] = t[j]

\* The same under the /i flag
AtFolded(s, t, k) ==
    /\ k >= 1 /\ k + Len(t) - 1 <= Len(s)
    /\ \A j \in 1..Len(t) : Fold(<<s[k + j - 1]>>) = Fold(<<t[j]>>)

\* The concatenation of the strings of a sequence
RECURSIVE flat(_)
flat(ss) == IF ss = <<>> THEN <<>> ELSE Head(ss) \o flat(Tail(ss))

\* String.prototype.includes
includes(s, t) == \E k \in 1..(Len(s) - Len(t) + 1) : At(s, t, k)

\* String.prototype.endsWith
endsWith(s, t) == Len(s) >= Len(t) /\ At(s, t, Len(s) - Len(t) + 1)

\* String.prototype.startsWith
startsWith(s, t) == At(s, t, 1)

\* String.prototype.indexOf: 0-based, -1 when t does not occur
indexOf(s, t) ==
    LET at == {k \in 1..(Len(s) - Len(t) + 1) : At(s, t, k)}
    IN  IF at = {} THEN -1 ELSE Least(at) - 1

\* A \b of a regular expression before the 1-based position k of s
WordAt(s, k) == k >= 1 /\ k <= Len(s) /\ IsWordChar(s[k])

Boundary(s, k) == WordAt(s, k - 1) # WordAt(s, k)

\* trimEnd in place of trim
trimEndOnly(s) ==
    LET keep == {k \in 1..Len(s) : s[k] \notin WhiteSpace}
    IN  IF keep = {} THEN <<>> ELSE SubSeq(s, 1, Greatest(keep))

\* String.prototype.trim
trim(s) ==
    LET keep == {k \in 1..Len(s) : s[k] \notin WhiteSpace}
    IN  IF keep = {} THEN <<>> ELSE SubSeq(s, Least(keep), Greatest(keep))

\* The folded maximal runs of word characters of a piece of code: a run
\* is what lies between two neighbouring \b
WordSet(code) ==
    LET n == Len(code)
        starts == {k \in 1..n : /\ IsWordChar(code[k])
                                /\ (k = 1 \/ ~IsWordChar(code[k - 1]))}
        ends == {k \in 1..n : /\ IsWordChar(code[k])
                              /\ (k = n \/ ~IsWordChar(code[k + 1]))}
    IN  {Fold(SubSeq(code, k, Least({e \in ends : e >= k}))) : k \in starts}

\* The run of word characters the code starts with (empty when it starts
\* with no word character)
FirstWord(code) ==
    LET stops == {k \in 1..Len(code) : ~IsWordChar(code[k])}
    IN  SubSeq(code, 1, IF stops = {} THEN Len(code) ELSE Least(stops) - 1)

\* re.test(code) for a regular expression /^(w1|w2|...)\b/i: the code
\* starts with one of the words, and a \b follows it
testAtStart(ws, code) ==
    LET first == Fold(FirstWord(code))
    IN  \E w \in ws : Keyword(w) = first

\* re.test(code) for the regular expressions /\bw\b/i of the words ws
containsWord(ws, code) ==
    LET W == WordSet(code) IN \E w \in ws : Keyword(w) \in W

-----------------------------------------------------------------------------
(* stripStringsAndComments *)

RECURSIVE StripFrom(_, _, _, _)
StripFrom(line, k, inDq, inSq) ==
    IF k > Len(line) THEN <<>>
    ELSE LET ch == line[k]
         IN  IF ~inDq /\ ~inSq /\ ch = Ord[";"] THEN <<>>
             ELSE IF ~inSq /\ ch = Ord["\""]
                  THEN StripFrom(line, k + 1, ~inDq, inSq)
             ELSE IF ~inDq /\ ch = Ord["'"]
                  THEN StripFrom(line, k + 1, inDq, ~inSq)
             ELSE IF ~inDq /\ ~inSq
                  THEN <<ch>> \o StripFrom(line, k + 1, inDq, inSq)
                  ELSE StripFrom(line, k + 1, inDq, inSq)

\* Stripping that ends the line at the first ; without tracking quotes
stripCommentsOnly(line) ==
    LET semis == {k \in 1..Len(line) : line[k] = Ord[";"]}
    IN  SubSeq(line, 1, IF semis = {} THEN Len(line) ELSE Least(semis) - 1)

stripStringsAndComments(line) == StripFrom(line, 1, FALSE, FALSE)

-----------------------------------------------------------------------------
(* The predicates of formatPureBasicCode *)

ProcedureWords == {"Procedure", "ProcedureC", "ProcedureDLL", "ProcedureCDLL"}

isClosing(l) ==
    testAtStart({"EndProcedure", "EndModule", "EndStructure", "EndIf", "Next",
                "Wend", "Until", "ForEver", "EndWith", "EndDeclareModule",
                "EndInterface", "EndEnumeration", "EndMacro", "EndDataSection",
                "CompilerEndIf", "CompilerEndSelect"}, l)

isOpening(l) ==
    testAtStart(ProcedureWords \cup
               {"Module", "Structure", "If", "For", "ForEach", "While",
                "Repeat", "With", "DeclareModule", "Interface", "Enumeration",
                "Macro", "DataSection", "CompilerIf", "CompilerSelect"}, l)

isEndSelect(l) == testAtStart({"EndSelect"}, l)

isSelect(l) == testAtStart({"Select"}, l)

isCase(l) == testAtStart({"Case", "Default"}, l)

isMiddle(l) == testAtStart({"Else", "ElseIf", "CompilerElse", "CompilerElseIf"}, l)

hasInlineNetZero(code) ==
    LET W == WordSet(code)
        contains(re) == \E w \in re : Keyword(w) \in W
    IN
        \/ contains({"If"}) /\ contains({"EndIf"})
        \/ (contains({"For"}) \/ contains({"ForEach"}))
              /\ contains({"Next"})
        \/ contains({"While"}) /\ contains({"Wend"})
        \/ contains({"Repeat"})
              /\ (contains({"Until"}) \/ contains({"ForEver"}))
        \/ contains({"Select"}) /\ contains({"EndSelect"})
        \/ contains({"With"}) /\ contains({"EndWith"})
        \/ contains(ProcedureWords) /\ contains({"EndProcedure"})
        \/ contains({"Module"}) /\ contains({"EndModule"})
        \/ contains({"DeclareModule"}) /\ contains({"EndDeclareModule"})
        \/ contains({"Structure"}) /\ contains({"EndStructure"})
        \/ contains({"Interface"}) /\ contains({"EndInterface"})
        \/ contains({"Enumeration"}) /\ contains({"EndEnumeration"})
        \/ contains({"Macro"}) /\ contains({"EndMacro"})
        \/ contains({"DataSection"}) /\ contains({"EndDataSection"})
        \/ contains({"CompilerIf"}) /\ contains({"CompilerEndIf"})
        \/ contains({"CompilerSelect"}) /\ contains({"CompilerEndSelect"})

-----------------------------------------------------------------------------
(* Options *)

\* An optional value is <<>> (undefined) or <<v>>.
Coalesce(v, d) == IF v = <<>> THEN d ELSE v[1]

\* Defaults with an indent of two spaces
DEFAULT_OPTIONS_TabSize2 == [tabSize |-> 2, insertSpaces |-> TRUE]

DEFAULT_OPTIONS == [tabSize |-> 4, insertSpaces |-> TRUE]

\* mergeOptions with || in place of ??: a falsy caller value yields the default
mergeOptionsOr(o) ==
    [tabSize      |-> IF o.tabSize = <<>> \/ o.tabSize = <<0>>
                      THEN DEFAULT_OPTIONS.tabSize ELSE o.tabSize[1],
     insertSpaces |-> IF o.insertSpaces = <<>> \/ o.insertSpaces = <<FALSE>>
                      THEN DEFAULT_OPTIONS.insertSpaces ELSE o.insertSpaces[1]]

mergeOptions(o) ==
    [tabSize      |-> Coalesce(o.tabSize, DEFAULT_OPTIONS.tabSize),
     insertSpaces |-> Coalesce(o.insertSpaces, DEFAULT_OPTIONS.insertSpaces)]

\* createIndent one level short
createIndentShort(level, opts) ==
    LET indentChar == IF opts.insertSpaces THEN " " ELSE "\t"
        indentSize == IF opts.insertSpaces THEN opts.tabSize ELSE 1
        count == (level - 1) * indentSize
    IN  IF count < 0
        THEN [threw |-> TRUE, value |-> <<>>]
        ELSE [threw |-> FALSE, value |-> [k \in 1..count |-> Ord[indentChar]]]

\* createIndent with a tab repeated tabSize times per level
createIndentSizedTabs(level, opts) ==
    LET indentChar == IF opts.insertSpaces THEN " " ELSE "\t"
        indentSize == opts.tabSize
        count == level * indentSize
    IN  IF count < 0
        THEN [threw |-> TRUE, value |-> <<>>]
        ELSE [threw |-> FALSE, value |-> [k \in 1..count |-> Ord[indentChar]]]

\* String.prototype.repeat raises a RangeError for a negative count.
createIndent(level, opts) ==
    LET indentChar == IF opts.insertSpaces THEN " " ELSE "\t"
        indentSize == IF opts.insertSpaces THEN opts.tabSize ELSE 1
        count == level * indentSize
    IN  IF count < 0
        THEN [threw |-> TRUE, value |-> <<>>]
        ELSE [threw |-> FALSE, value |-> [k \in 1..count |-> Ord[indentChar]]]

-----------------------------------------------------------------------------
(* formatPureBasicCode: the body of the loop over the lines *)

InitialFormatterState ==
    [indentLevel |-> 0, inSelect |-> FALSE, selectBaseIndent |-> 0,
     caseActive |-> FALSE]

\* PreLine without the clamps at 0
PreLineUnclamped(w, code, inlineAny) ==
    IF ~inlineAny /\ isEndSelect(code) THEN
        IF w.inSelect
        THEN [w EXCEPT !.lineIndent = w.selectBaseIndent,
                       !.indentLevel = w.selectBaseIndent,
                       !.inSelect = FALSE,
                       !.caseActive = FALSE]
        ELSE [w EXCEPT !.lineIndent = w.indentLevel - 1,
                       !.indentLevel = w.indentLevel - 1]
    ELSE IF ~inlineAny /\ isSelect(code) THEN
        [w EXCEPT !.lineIndent = w.indentLevel]
    ELSE IF ~inlineAny /\ w.inSelect /\ isCase(code) THEN
        [w EXCEPT !.lineIndent = w.selectBaseIndent + 1]
    ELSE IF ~inlineAny /\ isClosing(code) THEN
        [w EXCEPT !.lineIndent = w.indentLevel - 1,
                  !.indentLevel = w.indentLevel - 1]
    ELSE w

\* PreLine in which EndSelect closes one level, whatever is open in the Select
PreLineEndSelectOneLevel(w, code, inlineAny) ==
    IF ~inlineAny /\ isEndSelect(code) THEN
        IF w.inSelect
        THEN [w EXCEPT !.lineIndent = Max(0, w.indentLevel - 1),
                       !.indentLevel = Max(0, w.indentLevel - 1),
                       !.inSelect = FALSE,
                       !.caseActive = FALSE]
        ELSE [w EXCEPT !.lineIndent = Max(0, w.indentLevel - 1),
                       !.indentLevel = Max(0, w.indentLevel - 1)]
    ELSE IF ~inlineAny /\ isSelect(code) THEN
        [w EXCEPT !.lineIndent = w.indentLevel]
    ELSE IF ~inlineAny /\ w.inSelect /\ isCase(code) THEN
        [w EXCEPT !.lineIndent = w.selectBaseIndent + 1]
    ELSE IF ~inlineAny /\ isClosing(code) THEN
        [w EXCEPT !.lineIndent = Max(0, w.indentLevel - 1),
                  !.indentLevel = Max(0, w.indentLevel - 1)]
    ELSE w

\* PreLine in which a Case is placed below the Select base also when no
\* Select is open
PreLineCaseAnywhere(w, code, inlineAny) ==
    IF ~inlineAny /\ isEndSelect(code) THEN
        IF w.inSelect
        THEN [w EXCEPT !.lineIndent = Max(0, w.selectBaseIndent),
                       !.indentLevel = w.selectBaseIndent,
                       !.inSelect = FALSE,
                       !.caseActive = FALSE]
        ELSE [w EXCEPT !.lineIndent = Max(0, w.indentLevel - 1),
                       !.indentLevel = Max(0, w.indentLevel - 1)]
    ELSE IF ~inlineAny /\ isSelect(code) THEN
        [w EXCEPT !.lineIndent = w.indentLevel]
    ELSE IF ~inlineAny /\ isCase(code) THEN
        [w EXCEPT !.lineIndent = w.selectBaseIndent + 1]
    ELSE IF ~inlineAny /\ isClosing(code) THEN
        [w EXCEPT !.lineIndent = Max(0, w.indentLevel - 1),
                  !.indentLevel = Max(0, w.indentLevel - 1)]
    ELSE w

\* lines 156-181: EndSelect, Select, Case/Default, closing statements
PreLine(w, code, inlineAny) ==
    IF ~inlineAny /\ isEndSelect(code) THEN
        IF w.inSelect
        THEN [w EXCEPT !.lineIndent = Max(0, w.selectBaseIndent),
                       !.indentLevel = w.selectBaseIndent,
                       !.inSelect = FALSE,
                       !.caseActive = FALSE]
        ELSE [w EXCEPT !.lineIndent = Max(0, w.indentLevel - 1),
                       !.indentLevel = Max(0, w.indentLevel - 1)]
    ELSE IF ~inlineAny /\ isSelect(code) THEN
        [w EXCEPT !.lineIndent = w.indentLevel]
    ELSE IF ~inlineAny /\ w.inSelect /\ isCase(code) THEN
        [w EXCEPT !.lineIndent = w.selectBaseIndent + 1]
    ELSE IF ~inlineAny /\ isClosing(code) THEN
        [w EXCEPT !.lineIndent = Max(0, w.indentLevel - 1),
                  !.indentLevel = Max(0, w.indentLevel - 1)]
    ELSE w

\* lines 183-189: middle statements decrease the level for their own line
MiddleLine(w, code, inlineAny) ==
    IF ~inlineAny /\ ~isSelect(code) /\ ~isEndSelect(code) /\ isMiddle(code)
    THEN [w EXCEPT !.lineIndent = Max(0, w.lineIndent - 1),
                   !.indentLevel = Max(0, w.lineIndent - 1),
                   !.restoreAfter = TRUE]
    ELSE w

\* PostLine with the case body only one level below the Select
PostLineShallowCase(w, code, inlineAny, inlineIf) ==
    IF inlineAny THEN w
    ELSE IF isSelect(code) THEN
        [w EXCEPT !.inSelect = TRUE,
                  !.selectBaseIndent = w.lineIndent,
                  !.caseActive = FALSE,
                  !.indentLevel = w.lineIndent + 1]
    ELSE IF ~inlineIf /\ w.inSelect /\ isCase(code) THEN
        [w EXCEPT !.caseActive = TRUE,
                  !.indentLevel = w.selectBaseIndent + 1]
    ELSE IF ~inlineAny /\ isOpening(code) THEN
        [w EXCEPT !.indentLevel = w.indentLevel + 1]
    ELSE w

\* PostLine in which an opening keyword does not open a level
PostLineNoOpening(w, code, inlineAny, inlineIf) ==
    IF inlineAny THEN w
    ELSE IF isSelect(code) THEN
        [w EXCEPT !.inSelect = TRUE,
                  !.selectBaseIndent = w.lineIndent,
                  !.caseActive = FALSE,
                  !.indentLevel = w.lineIndent + 1]
    ELSE IF ~inlineIf /\ w.inSelect /\ isCase(code) THEN
        [w EXCEPT !.caseActive = TRUE,
                  !.indentLevel = w.selectBaseIndent + 2]
    ELSE w

\* PostLine in which a Select keeps caseActive as it is
PostLineSelectKeepsCase(w, code, inlineAny, inlineIf) ==
    IF inlineAny THEN w
    ELSE IF isSelect(code) THEN
        [w EXCEPT !.inSelect = TRUE,
                  !.selectBaseIndent = w.lineIndent,
                  !.indentLevel = w.lineIndent + 1]
    ELSE IF ~inlineIf /\ w.inSelect /\ isCase(code) THEN
        [w EXCEPT !.caseActive = TRUE,
                  !.indentLevel = w.selectBaseIndent + 2]
    ELSE IF ~inlineAny /\ isOpening(code) THEN
        [w EXCEPT !.indentLevel = w.indentLevel + 1]
    ELSE w

\* PostLine in which a Select records its base after entering
PostLineSelectBaseAfter(w, code, inlineAny, inlineIf) ==
    IF inlineAny THEN w
    ELSE IF isSelect(code) THEN
        [w EXCEPT !.inSelect = TRUE,
                  !.indentLevel = w.lineIndent + 1,
                  !.selectBaseIndent = w.lineIndent + 1,
                  !.caseActive = FALSE]
    ELSE IF ~inlineIf /\ w.inSelect /\ isCase(code) THEN
        [w EXCEPT !.caseActive = TRUE,
                  !.indentLevel = w.selectBaseIndent + 2]
    ELSE IF ~inlineAny /\ isOpening(code) THEN
        [w EXCEPT !.indentLevel = w.indentLevel + 1]
    ELSE w

\* lines 195-210: post-line processing
PostLine(w, code, inlineAny, inlineIf) ==
    IF inlineAny THEN w
    ELSE IF isSelect(code) THEN
        [w EXCEPT !.inSelect = TRUE,
                  !.selectBaseIndent = w.lineIndent,
                  !.caseActive = FALSE,
                  !.indentLevel = w.lineIndent + 1]
    ELSE IF ~inlineIf /\ w.inSelect /\ isCase(code) THEN
        [w EXCEPT !.caseActive = TRUE,
                  !.indentLevel = w.selectBaseIndent + 2]
    ELSE IF ~inlineAny /\ isOpening(code) THEN
        [w EXCEPT !.indentLevel = w.indentLevel + 1]
    ELSE w

\* lines 211-213: restore the level after a middle statement
RestoreLine(w, inlineAny) ==
    IF ~inlineAny /\ w.restoreAfter
    THEN [w EXCEPT !.indentLevel = w.indentLevel + 1]
    ELSE w

\* PinLine that never pins
PinLineNever(w, code, inlineAny) == w

\* PinLine that keeps the level two below the Select
PinLineDeep(w, code, inlineAny) ==
    IF /\ ~inlineAny /\ w.inSelect /\ ~w.caseActive
       /\ ~isEndSelect(code) /\ ~isCase(code) /\ ~isSelect(code)
    THEN [w EXCEPT !.indentLevel = Max(w.indentLevel, w.selectBaseIndent + 2)]
    ELSE w

\* PinLine that pins after the first Case, not before it
PinLineCaseSeen(w, code, inlineAny) ==
    IF /\ ~inlineAny /\ w.inSelect /\ w.caseActive
       /\ ~isEndSelect(code) /\ ~isCase(code) /\ ~isSelect(code)
    THEN [w EXCEPT !.indentLevel = Max(w.indentLevel, w.selectBaseIndent + 1)]
    ELSE w

\* lines 215-218: inside Select before the first Case keep the level
PinLine(w, code, inlineAny) ==
    IF /\ ~inlineAny /\ w.inSelect /\ ~w.caseActive
       /\ ~isEndSelect(code) /\ ~isCase(code) /\ ~isSelect(code)
    THEN [w EXCEPT !.indentLevel = Max(w.indentLevel, w.selectBaseIndent + 1)]
    ELSE w

StateOf(w) ==
    [indentLevel |-> w.indentLevel, inSelect |-> w.inSelect,
     selectBaseIndent |-> w.selectBaseIndent, caseActive |-> w.caseActive]

\* Emit with a blank inserted after the first word (spaceAfterKeywords)
EmitSpaced(indent, trimmed) ==
    [threw |-> indent.threw,
     line  |-> IF indent.threw THEN <<>>
               ELSE indent.value \o <<Head(trimmed), Ord[" "]>> \o Tail(trimmed)]

\* indent + trimmed, where building the indent may raise
Emit(indent, trimmed) ==
    [threw |-> indent.threw,
     line  |-> IF indent.threw THEN <<>> ELSE indent.value \o trimmed]

\* One iteration of the loop (lines 135-219) from state st on the line raw:
\* the state after it, the line pushed to out, and whether it raised.
FormatLine(st, raw, opts) ==
    LET trimmed == trim(raw)
        code == trim(stripStringsAndComments(raw))
    IN  IF trimmed = <<>> THEN
            [state |-> st, threw |-> FALSE, line |-> <<>>]
        ELSE IF Head(trimmed) = Ord[";"] THEN
            LET e == Emit(createIndent(Max(0, st.indentLevel), opts), trimmed)
            IN  [state |-> st, threw |-> e.threw, line |-> e.line]
        ELSE
            LET inlineIf == testAtStart({"If"}, code) /\ containsWord({"EndIf"}, code)
                inlineAny == hasInlineNetZero(code)
                w0 == [indentLevel |-> st.indentLevel,
                       inSelect |-> st.inSelect,
                       selectBaseIndent |-> st.selectBaseIndent,
                       caseActive |-> st.caseActive,
                       lineIndent |-> st.indentLevel,
                       restoreAfter |-> FALSE]
                w2 == MiddleLine(PreLine(w0, code, inlineAny), code, inlineAny)
                e  == Emit(createIndent(Max(0, w2.lineIndent), opts), trimmed)
                w5 == PinLine(RestoreLine(PostLine(w2, code, inlineAny, inlineIf),
                                          inlineAny),
                              code, inlineAny)
            IN  [state |-> IF e.threw THEN StateOf(w2) ELSE StateOf(w5),
                 threw |-> e.threw, line |-> e.line]

\* The whole loop as a function of its inputs.
RECURSIVE FormatLines(_, _, _, _, _)
FormatLines(ls, k, st, opts, acc) ==
    IF k > Len(ls) THEN [threw |-> FALSE, out |-> acc, state |-> st]
    ELSE LET r == FormatLine(st, ls[k], opts)
         IN  IF r.threw THEN [threw |-> TRUE, out |-> acc, state |-> r.state]
             ELSE FormatLines(ls, k + 1, r.state, opts, Append(acc, r.line))

\* formatPureBasicCode(text, options, initialState?): initial is <<>> or
\* <<state>>.  The value returned is the field text, out.join('\n'), of
\* which out are the lines; state is the state after the last line.
formatPureBasicCode(t, opts, initial) ==
    LET r == FormatLines(split(t, LF), 1,
                         Coalesce(initial, InitialFormatterState), opts, <<>>)
    IN  [threw |-> r.threw, text |-> join(r.out, LF), out |-> r.out,
         state |-> r.state]

-----------------------------------------------------------------------------
(* computeInitialFormatterState *)

initIsClosing(l) ==
    testAtStart({"EndProcedure", "EndModule", "EndStructure", "EndIf", "Next",
                "Wend", "Until", "ForEver", "EndWith", "EndDeclareModule",
                "EndInterface", "EndEnumeration"}, l)

initIsOpening(l) ==
    testAtStart(ProcedureWords \cup
               {"Module", "Structure", "If", "For", "ForEach", "While",
                "Repeat", "With", "DeclareModule", "Interface", "Enumeration"}, l)

initHasInlineNetZero(code) ==
    LET W == WordSet(code)
        contains(re) == \E w \in re : Keyword(w) \in W
    IN
        \/ contains({"If"}) /\ contains({"EndIf"})
        \/ (contains({"For"}) \/ contains({"ForEach"}))
              /\ contains({"Next"})
        \/ contains({"While"}) /\ contains({"Wend"})
        \/ contains({"Repeat"})
              /\ (contains({"Until"}) \/ contains({"ForEver"}))
        \/ contains({"Select"}) /\ contains({"EndSelect"})
        \/ contains({"With"}) /\ contains({"EndWith"})
        \/ contains(ProcedureWords) /\ contains({"EndProcedure"})
        \/ contains({"Module"}) /\ contains({"EndModule"})
        \/ contains({"DeclareModule"}) /\ contains({"EndDeclareModule"})
        \/ contains({"Structure"}) /\ contains({"EndStructure"})
        \/ contains({"Interface"}) /\ contains({"EndInterface"})
        \/ contains({"Enumeration"}) /\ contains({"EndEnumeration"})

\* lines 277-295
InitPreLine(st, code, inlineAny) ==
    IF ~inlineAny /\ isEndSelect(code) THEN
        IF st.inSelect
        THEN [st EXCEPT !.indentLevel = Max(0, st.selectBaseIndent),
                        !.inSelect = FALSE,
                        !.caseActive = FALSE]
        ELSE [st EXCEPT !.indentLevel = Max(0, st.indentLevel - 1)]
    ELSE IF ~inlineAny /\ isSelect(code) THEN
        [st EXCEPT !.selectBaseIndent = st.indentLevel,
                   !.inSelect = TRUE,
                   !.caseActive = FALSE,
                   !.indentLevel = st.indentLevel + 1]
    ELSE IF ~inlineAny /\ initIsClosing(code) THEN
        [st EXCEPT !.indentLevel = Max(0, st.indentLevel - 1)]
    ELSE st

\* lines 297-307
InitPostLine(st, code, inlineAny) ==
    IF inlineAny THEN st
    ELSE IF isSelect(code) THEN st
    ELSE IF ~inlineAny /\ st.inSelect /\ isCase(code) THEN
        [st EXCEPT !.indentLevel = st.selectBaseIndent + 2]
    ELSE IF ~inlineAny /\ initIsOpening(code) THEN
        [st EXCEPT !.indentLevel = st.indentLevel + 1]
    ELSE st

\* lines 309-311
InitPinLine(st, code, inlineAny) ==
    IF /\ ~inlineAny /\ st.inSelect /\ ~st.caseActive
       /\ ~isEndSelect(code) /\ ~isCase(code) /\ ~isSelect(code)
    THEN [st EXCEPT !.indentLevel = Max(st.indentLevel, st.selectBaseIndent + 1)]
    ELSE st

\* One iteration of the loop of computeInitialFormatterState (lines 269-312)
InitLine(st, raw) ==
    LET trimmed == trim(raw)
        code == trim(stripStringsAndComments(raw))
    IN  IF trimmed = <<>> \/ Head(trimmed) = Ord[";"] THEN st
        ELSE LET inlineAny == initHasInlineNetZero(code)
             IN  InitPinLine(InitPostLine(InitPreLine(st, code, inlineAny),
                                          code, inlineAny),
                             code, inlineAny)

RECURSIVE InitLines(_, _, _)
InitLines(ls, k, st) ==
    IF k > Len(ls) THEN st ELSE InitLines(ls, k + 1, InitLine(st, ls[k]))

computeInitialFormatterState(linesBefore) ==
    InitLines(linesBefore, 1, InitialFormatterState)

-----------------------------------------------------------------------------
(* The text document and ranges *)

Position(l, c) == [line |-> l, character |-> c]

RangeOf(s, e) == [start |-> s, end |-> e]

\* The TextDocument of vscode-languageserver-textdocument, whose offsetAt
\* and positionAt clip a position to the text before the line break.
isEOL(ch) == ch = Ord["\r"] \/ ch = Ord["\n"]

\* computeLineOffsets: a line starts at 0 and after every \r\n, \n and \r
getLineOffsets(content) ==
    <<0>> \o Positions(content,
               LAMBDA k :
                   /\ isEOL(content[k])
                   /\ ~(/\ content[k] = Ord["\r"] /\ k < Len(content)
                        /\ content[k + 1] = LF))

ensureBeforeEOL(content, offset, lineOffset) ==
    Greatest({o \in lineOffset..offset :
                 o = lineOffset \/ ~isEOL(content[o])})

offsetAt(content, position) ==
    LET lineOffsets == getLineOffsets(content)
    IN  IF position.line >= Len(lineOffsets) THEN Len(content)
        ELSE IF position.line < 0 THEN 0
        ELSE LET lineOffset == lineOffsets[position.line + 1]
                 nextLineOffset ==
                     IF position.line + 1 < Len(lineOffsets)
                     THEN lineOffsets[position.line + 2]
                     ELSE Len(content)
             IN  IF position.character <= 0 THEN lineOffset
                 ELSE ensureBeforeEOL(content,
                          Min(lineOffset + position.character, nextLineOffset),
                          lineOffset)

positionAt(content, offset0) ==
    LET offset == Max(Min(offset0, Len(content)), 0)
        lineOffsets == getLineOffsets(content)
        line == Cardinality({n \in 1..Len(lineOffsets) :
                                lineOffsets[n] <= offset}) - 1
    IN  Position(line,
                 ensureBeforeEOL(content, offset, lineOffsets[line + 1])
                     - lineOffsets[line + 1])

\* document.getText(range)
getText(content, range) ==
    substring(content, offsetAt(content, range.start),
              offsetAt(content, range.end))

expandToFullLines(document, range) ==
    LET startLine == range.start.line
        endLine == range.end.line
    IN  RangeOf(Position(startLine, 0),
                Position(endLine,
                         Len(getText(document,
                                     RangeOf(Position(endLine, 0),
                                             Position(endLine + 1, 0))))))

\* Array.prototype.slice(0, n) for n >= 0
slice0(t, n) == SubSeq(t, 1, Min(n, Len(t)))

\* Range.create(Position.create(0, 0), document.positionAt(text.length))
fullRange(content) ==
    RangeOf(Position(0, 0), positionAt(content, Len(content)))

TextEditReplace(range, newText) == [range |-> range, newText |-> newText]

\* TextDocument.lineCount
lineCount(content) == Len(getLineOffsets(content))

-----------------------------------------------------------------------------
(* Input lines *)

LIf        == Str("If x")
LEndIf     == Str("  EndIf")
LElse      == Str("Else")
LSelect    == Str("Select a")
LCase      == Str("\tCase 1")
LDefault   == Str("Default")
LEndSelect == Str("EndSelect")
LMacro     == Str("Macro m")
LEndMacro  == Str("EndMacro")
LNext      == Str("next ")
LPlain     == Str("\tfoo()")
LBar       == Str("bar()")
LBlank     == Str(" ")
LComment   == Str("; EndIf")
LString    == Str("s=\"If;\" ;c")
LInlineIf  == Str("If a : b : EndIf")

LCase1     == Str("Case 1")
LFoo       == Str("foo()")
LMixed     == Str("If x : Macro m : EndMacro")

\* Lines of every structural class, some with leading or trailing blanks
LIfNext    == Str("If x : Next")
LMacroLine == Str("Macro m : EndMacro")
LIfComment == Str("If x ; EndIf")
LDebugString == Str("Debug \"EndIf\"")
LIfSemi    == Str("If s=\";\" : EndIf")
LIfQuoted  == Str("If c=';' : x=\"EndIf\"")
LY         == Str("y()")
LIndentedY == Str("  y()")
LEndIf0    == Str("EndIf")

Pool == {LIf, LEndIf, LElse, LSelect, LCase, LEndSelect, LNext}

\* Lines whose content matters: blank, comment, string, inline block
TextPool == {LIf, LEndIf, LBlank, LComment, LString, LPlain, LInlineIf}

\* Lines of the block families and inline blocks
ParityPool == {LIf, LEndIf, LSelect, LCase, LMacro, LEndMacro, LPlain, LMixed}

\* Scenario C of the specification
ScenarioC == <<LSelect, LCase1, LFoo, LDefault, LBar, LEndSelect>>

\* Lines that may precede the scenario
PrefixPool == {LIf, LEndIf, LSelect, LCase1, LElse}

\* Scenario B, and Scenario A: the same block with its body indented by two
ScenarioB == <<LIf, LY, LEndIf0>>

ScenarioA == <<LIf, LIndentedY, LEndIf0>>

\* Simple blocks: an opener, plain statements, the matching closer
SimpleBlocks == {ScenarioB, ScenarioA, <<LMacro, LFoo, LBar, LEndMacro>>}

\* The texts of 1..MaxLines lines over a pool of lines
Docs(pool) == UNION {[1..n -> pool] : n \in 1..MaxLines}

\* params.options of a request: both fields omitted, only tabSize supplied,
\* only insertSpaces supplied
RequestOptions ==
    {[tabSize |-> <<>>, insertSpaces |-> <<>>],
     [tabSize |-> <<2>>, insertSpaces |-> <<>>],
     [tabSize |-> <<>>, insertSpaces |-> <<FALSE>>]}

-----------------------------------------------------------------------------
(* Maps, paths and URIs *)

\* A Map without entries; a Map is a function on its keys
EmptyMap == <<>>

MapHas(m, k) == k \in DOMAIN m

\* Map.prototype.get: <<>> for undefined
MapGet(m, k) == IF k \in DOMAIN m THEN <<m[k]>> ELSE <<>>

MapSet(m, k, v) == [x \in (DOMAIN m) \cup {k} |-> IF x = k THEN v ELSE m[x]]

MapDelete(m, ks) == [x \in (DOMAIN m) \ ks |-> m[x]]

\* A Map whose iteration order matters is the sequence of its entries
\* [key, value] in insertion order
Keys(om) == [n \in 1..Len(om) |-> om[n].key]

KeySet(om) == {om[n].key : n \in 1..Len(om)}

OrderedGet(om, k) ==
    IF k \in KeySet(om)
    THEN <<om[CHOOSE n \in 1..Len(om) : om[n].key = k].value>>
    ELSE <<>>

\* Map.prototype.set: a key that is present keeps its place
OrderedSet(om, k, v) ==
    IF k \in KeySet(om)
    THEN [n \in 1..Len(om) |->
            IF om[n].key = k THEN [key |-> k, value |-> v] ELSE om[n]]
    ELSE Append(om, [key |-> k, value |-> v])

OrderedDelete(om, k) == SelectSeq(om, LAMBDA en : en.key # k)

\* An optional string (<<>> for undefined) that is truthy: it is defined
\* and not empty
Truthy(v) == v # <<>> /\ v[1] # <<>>

\* String.prototype.toLowerCase: the lower-case mappings of the Unicode
\* character database, version 17.0, as <<first, last, step, offset>> over
\* code points
LowerCaseRanges ==
    {<<65, 90, 1, 32>>, <<192, 214, 1, 32>>, <<216, 222, 1, 32>>,
     <<256, 302, 2, 1>>, <<306, 310, 2, 1>>, <<313, 327, 2, 1>>,
     <<330, 374, 2, 1>>, <<376, 376, 1, -121>>, <<377, 381, 2, 1>>,
     <<385, 385, 1, 210>>, <<386, 388, 2, 1>>, <<390, 390, 1, 206>>,
     <<391, 391, 1, 1>>, <<393, 394, 1, 205>>, <<395, 395, 1, 1>>,
     <<398, 398, 1, 79>>, <<399, 399, 1, 202>>, <<400, 400, 1, 203>>,
     <<401, 401, 1, 1>>, <<403, 403, 1, 205>>, <<404, 404, 1, 207>>,
     <<406, 406, 1, 211>>, <<407, 407, 1, 209>>, <<408, 408, 1, 1>>,
     <<412, 412, 1, 211>>, <<413, 413, 1, 213>>, <<415, 415, 1, 214>>,
     <<416, 420, 2, 1>>, <<422, 422, 1, 218>>, <<423, 423, 1, 1>>,
     <<425, 425, 1, 218>>, <<428, 428, 1, 1>>, <<430, 430, 1, 218>>,
     <<431, 431, 1, 1>>, <<433, 434, 1, 217>>, <<435, 437, 2, 1>>,
     <<439, 439, 1, 219>>, <<440, 440, 1, 1>>, <<444, 444, 1, 1>>,
     <<452, 452, 1, 2>>, <<453, 453, 1, 1>>, <<455, 455, 1, 2>>,
     <<456, 456, 1, 1>>, <<458, 458, 1, 2>>, <<459, 475, 2, 1>>,
     <<478, 494, 2, 1>>, <<497, 497, 1, 2>>, <<498, 500, 2, 1>>,
     <<502, 502, 1, -97>>, <<503, 503, 1, -56>>, <<504, 542, 2, 1>>,
     <<544, 544, 1, -130>>, <<546, 562, 2, 1>>, <<570, 570, 1, 10795>>,
     <<571, 571, 1, 1>>, <<573, 573, 1, -163>>, <<574, 574, 1, 10792>>,
     <<577, 577, 1, 1>>, <<579, 579, 1, -195>>, <<580, 580, 1, 69>>,
     <<581, 581, 1, 71>>, <<582, 590, 2, 1>>, <<880, 882, 2, 1>>,
     <<886, 886, 1, 1>>, <<895, 895, 1, 116>>, <<902, 902, 1, 38>>,
     <<904, 906, 1, 37>>, <<908, 908, 1, 64>>, <<910, 911, 1, 63>>,
     <<913, 929, 1, 32>>, <<931, 939, 1, 32>>, <<975, 975, 1, 8>>,
     <<984, 1006, 2, 1>>, <<1012, 1012, 1, -60>>, <<1015, 1015, 1, 1>>,
     <<1017, 1017, 1, -7>>, <<1018, 1018, 1, 1>>, <<1021, 1023, 1, -130>>,
     <<1024, 1039, 1, 80>>, <<1040, 1071, 1, 32>>, <<1120, 1152, 2, 1>>,
     <<1162, 1214, 2, 1>>, <<1216, 1216, 1, 15>>, <<1217, 1229, 2, 1>>,
     <<1232, 1326, 2, 1>>, <<1329, 1366, 1, 48>>, <<4256, 4293, 1, 7264>>,
     <<4295, 4295, 1, 7264>>, <<4301, 4301, 1, 7264>>,
     <<5024, 5103, 1, 38864>>, <<5104, 5109, 1, 8>>, <<7305, 7305, 1, 1>>,
     <<7312, 7354, 1, -3008>>, <<7357, 7359, 1, -3008>>,
     <<7680, 7828, 2, 1>>, <<7838, 7838, 1, -7615>>, <<7840, 7934, 2, 1>>,
     <<7944, 7951, 1, -8>>, <<7960, 7965, 1, -8>>, <<7976, 7983, 1, -8>>,
     <<7992, 7999, 1, -8>>, <<8008, 8013, 1, -8>>, <<8025, 8031, 2, -8>>,
     <<8040, 8047, 1, -8>>, <<8072, 8079, 1, -8>>, <<8088, 8095, 1, -8>>,
     <<8104, 8111, 1, -8>>, <<8120, 8121, 1, -8>>, <<8122, 8123, 1, -74>>,
     <<8124, 8124, 1, -9>>, <<8136, 8139, 1, -86>>, <<8140, 8140, 1, -9>>,
     <<8152, 8153, 1, -8>>, <<8154, 8155, 1, -100>>, <<8168, 8169, 1, -8>>,
     <<8170, 8171, 1, -112>>, <<8172, 8172, 1, -7>>, <<8184, 8185, 1, -128>>,
     <<8186, 8187, 1, -126>>, <<8188, 8188, 1, -9>>,
     <<8486, 8486, 1, -7517>>, <<8490, 8490, 1, -8383>>,
     <<8491, 8491, 1, -8262>>, <<8498, 8498, 1, 28>>, <<8544, 8559, 1, 16>>,
     <<8579, 8579, 1, 1>>, <<9398, 9423, 1, 26>>, <<11264, 11311, 1, 48>>,
     <<11360, 11360, 1, 1>>, <<11362, 11362, 1, -10743>>,
     <<11363, 11363, 1, -3814>>, <<11364, 11364, 1, -10727>>,
     <<11367, 11371, 2, 1>>, <<11373, 11373, 1, -10780>>,
     <<11374, 11374, 1, -10749>>, <<11375, 11375, 1, -10783>>,
     <<11376, 11376, 1, -10782>>, <<11378, 11378, 1, 1>>,
     <<11381, 11381, 1, 1>>, <<11390, 11391, 1, -10815>>,
     <<11392, 11490, 2, 1>>, <<11499, 11501, 2, 1>>, <<11506, 11506, 1, 1>>,
     <<42560, 42604, 2, 1>>, <<42624, 42650, 2, 1>>, <<42786, 42798, 2, 1>>,
     <<42802, 42862, 2, 1>>, <<42873, 42875, 2, 1>>,
     <<42877, 42877, 1, -35332>>, <<42878, 42886, 2, 1>>,
     <<42891, 42891, 1, 1>>, <<42893, 42893, 1, -42280>>,
     <<42896, 42898, 2, 1>>, <<42902, 42920, 2, 1>>,
     <<42922, 42922, 1, -42308>>, <<42923, 42923, 1, -42319>>,
     <<42924, 42924, 1, -42315>>, <<42925, 42925, 1, -42305>>,
     <<42926, 42926, 1, -42308>>, <<42928, 42928, 1, -42258>>,
     <<42929, 42929, 1, -42282>>, <<42930, 42930, 1, -42261>>,
     <<42931, 42931, 1, 928>>, <<42932, 42946, 2, 1>>,
     <<42948, 42948, 1, -48>>, <<42949, 42949, 1, -42307>>,
     <<42950, 42950, 1, -35384>>, <<42951, 42953, 2, 1>>,
     <<42955, 42955, 1, -42343>>, <<42956, 42970, 2, 1>>,
     <<42972, 42972, 1, -42561>>, <<42997, 42997, 1, 1>>,
     <<65313, 65338, 1, 32>>, <<66560, 66599, 1, 40>>,
     <<66736, 66771, 1, 40>>, <<66928, 66938, 1, 39>>,
     <<66940, 66954, 1, 39>>, <<66956, 66962, 1, 39>>,
     <<66964, 66965, 1, 39>>, <<68736, 68786, 1, 64>>,
     <<68944, 68965, 1, 32>>, <<71840, 71871, 1, 32>>,
     <<93760, 93791, 1, 32>>, <<93856, 93880, 1, 27>>,
     <<125184, 125217, 1, 34>>}

\* The code points that are cased and not case-ignorable, and the code
\* points that are case-ignorable, as <<first, last>>: the context of the
\* capital sigma in toLowerCase
CasedRanges ==
    {<<65, 90>>, <<97, 122>>, <<170, 170>>, <<181, 181>>, <<186, 186>>,
     <<192, 214>>, <<216, 246>>, <<248, 442>>, <<444, 447>>, <<452, 659>>,
     <<662, 687>>, <<880, 883>>, <<886, 887>>, <<891, 893>>, <<895, 895>>,
     <<902, 902>>, <<904, 906>>, <<908, 908>>, <<910, 929>>, <<931, 1013>>,
     <<1015, 1153>>, <<1162, 1327>>, <<1329, 1366>>, <<1376, 1416>>,
     <<4256, 4293>>, <<4295, 4295>>, <<4301, 4301>>, <<4304, 4346>>,
     <<4349, 4351>>, <<5024, 5109>>, <<5112, 5117>>, <<7296, 7306>>,
     <<7312, 7354>>, <<7357, 7359>>, <<7424, 7467>>, <<7531, 7543>>,
     <<7545, 7578>>, <<7680, 7957>>, <<7960, 7965>>, <<7968, 8005>>,
     <<8008, 8013>>, <<8016, 8023>>, <<8025, 8025>>, <<8027, 8027>>,
     <<8029, 8029>>, <<8031, 8061>>, <<8064, 8116>>, <<8118, 8124>>,
     <<8126, 8126>>, <<8130, 8132>>, <<8134, 8140>>, <<8144, 8147>>,
     <<8150, 8155>>, <<8160, 8172>>, <<8178, 8180>>, <<8182, 8188>>,
     <<8450, 8450>>, <<8455, 8455>>, <<8458, 8467>>, <<8469, 8469>>,
     <<8473, 8477>>, <<8484, 8484>>, <<8486, 8486>>, <<8488, 8488>>,
     <<8490, 8493>>, <<8495, 8500>>, <<8505, 8505>>, <<8508, 8511>>,
     <<8517, 8521>>, <<8526, 8526>>, <<8544, 8575>>, <<8579, 8580>>,
     <<9398, 9449>>, <<11264, 11387>>, <<11390, 11492>>, <<11499, 11502>>,
     <<11506, 11507>>, <<11520, 11557>>, <<11559, 11559>>, <<11565, 11565>>,
     <<42560, 42605>>, <<42624, 42651>>, <<42786, 42863>>, <<42865, 42887>>,
     <<42891, 42894>>, <<42896, 42972>>, <<42997, 42998>>, <<43002, 43002>>,
     <<43824, 43866>>, <<43872, 43880>>, <<43888, 43967>>, <<64256, 64262>>,
     <<64275, 64279>>, <<65313, 65338>>, <<65345, 65370>>, <<66560, 66639>>,
     <<66736, 66771>>, <<66776, 66811>>, <<66928, 66938>>, <<66940, 66954>>,
     <<66956, 66962>>, <<66964, 66965>>, <<66967, 66977>>, <<66979, 66993>>,
     <<66995, 67001>>, <<67003, 67004>>, <<68736, 68786>>, <<68800, 68850>>,
     <<68944, 68965>>, <<68976, 68997>>, <<71840, 71903>>, <<93760, 93823>>,
     <<93856, 93880>>, <<93883, 93907>>, <<119808, 119892>>,
     <<119894, 119964>>, <<119966, 119967>>, <<119970, 119970>>,
     <<119973, 119974>>, <<119977, 119980>>, <<119982, 119993>>,
     <<119995, 119995>>, <<119997, 120003>>, <<120005, 120069>>,
     <<120071, 120074>>, <<120077, 120084>>, <<120086, 120092>>,
     <<120094, 120121>>, <<120123, 120126>>, <<120128, 120132>>,
     <<120134, 120134>>, <<120138, 120144>>, <<120146, 120485>>,
     <<120488, 120512>>, <<120514, 120538>>, <<120540, 120570>>,
     <<120572, 120596>>, <<120598, 120628>>, <<120630, 120654>>,
     <<120656, 120686>>, <<120688, 120712>>, <<120714, 120744>>,
     <<120746, 120770>>, <<120772, 120779>>, <<122624, 122633>>,
     <<122635, 122654>>, <<122661, 122666>>, <<125184, 125251>>,
     <<127280, 127305>>, <<127312, 127337>>, <<127344, 127369>>}

CaseIgnorableRanges ==
    {<<39, 39>>, <<46, 46>>, <<58, 58>>, <<94, 94>>, <<96, 96>>,
     <<168, 168>>, <<173, 173>>, <<175, 175>>, <<180, 180>>, <<183, 184>>,
     <<688, 879>>, <<884, 885>>, <<890, 890>>, <<900, 901>>, <<903, 903>>,
     <<1155, 1161>>, <<1369, 1369>>, <<1375, 1375>>, <<1425, 1469>>,
     <<1471, 1471>>, <<1473, 1474>>, <<1476, 1477>>, <<1479, 1479>>,
     <<1524, 1524>>, <<1536, 1541>>, <<1552, 1562>>, <<1564, 1564>>,
     <<1600, 1600>>, <<1611, 1631>>, <<1648, 1648>>, <<1750, 1757>>,
     <<1759, 1768>>, <<1770, 1773>>, <<1807, 1807>>, <<1809, 1809>>,
     <<1840, 1866>>, <<1958, 1968>>, <<2027, 2037>>, <<2042, 2042>>,
     <<2045, 2045>>, <<2070, 2093>>, <<2137, 2139>>, <<2184, 2184>>,
     <<2192, 2193>>, <<2199, 2207>>, <<2249, 2306>>, <<2362, 2362>>,
     <<2364, 2364>>, <<2369, 2376>>, <<2381, 2381>>, <<2385, 2391>>,
     <<2402, 2403>>, <<2417, 2417>>, <<2433, 2433>>, <<2492, 2492>>,
     <<2497, 2500>>, <<2509, 2509>>, <<2530, 2531>>, <<2558, 2558>>,
     <<2561, 2562>>, <<2620, 2620>>, <<2625, 2626>>, <<2631, 2632>>,
     <<2635, 2637>>, <<2641, 2641>>, <<2672, 2673>>, <<2677, 2677>>,
     <<2689, 2690>>, <<2748, 2748>>, <<2753, 2757>>, <<2759, 2760>>,
     <<2765, 2765>>, <<2786, 2787>>, <<2810, 2815>>, <<2817, 2817>>,
     <<2876, 2876>>, <<2879, 2879>>, <<2881, 2884>>, <<2893, 2893>>,
     <<2901, 2902>>, <<2914, 2915>>, <<2946, 2946>>, <<3008, 3008>>,
     <<3021, 3021>>, <<3072, 3072>>, <<3076, 3076>>, <<3132, 3132>>,
     <<3134, 3136>>, <<3142, 3144>>, <<3146, 3149>>, <<3157, 3158>>,
     <<3170, 3171>>, <<3201, 3201>>, <<3260, 3260>>, <<3263, 3263>>,
     <<3270, 3270>>, <<3276, 3277>>, <<3298, 3299>>, <<3328, 3329>>,
     <<3387, 3388>>, <<3393, 3396>>, <<3405, 3405>>, <<3426, 3427>>,
     <<3457, 3457>>, <<3530, 3530>>, <<3538, 3540>>, <<3542, 3542>>,
     <<3633, 3633>>, <<3636, 3642>>, <<3654, 3662>>, <<3761, 3761>>,
     <<3764, 3772>>, <<3782, 3782>>, <<3784, 3790>>, <<3864, 3865>>,
     <<3893, 3893>>, <<3895, 3895>>, <<3897, 3897>>, <<3953, 3966>>,
     <<3968, 3972>>, <<3974, 3975>>, <<3981, 3991>>, <<3993, 4028>>,
     <<4038, 4038>>, <<4141, 4144>>, <<4146, 4151>>, <<4153, 4154>>,
     <<4157, 4158>>, <<4184, 4185>>, <<4190, 4192>>, <<4209, 4212>>,
     <<4226, 4226>>, <<4229, 4230>>, <<4237, 4237>>, <<4253, 4253>>,
     <<4348, 4348>>, <<4957, 4959>>, <<5906, 5908>>, <<5938, 5939>>,
     <<5970, 5971>>, <<6002, 6003>>, <<6068, 6069>>, <<6071, 6077>>,
     <<6086, 6086>>, <<6089, 6099>>, <<6103, 6103>>, <<6109, 6109>>,
     <<6155, 6159>>, <<6211, 6211>>, <<6277, 6278>>, <<6313, 6313>>,
     <<6432, 6434>>, <<6439, 6440>>, <<6450, 6450>>, <<6457, 6459>>,
     <<6679, 6680>>, <<6683, 6683>>, <<6742, 6742>>, <<6744, 6750>>,
     <<6752, 6752>>, <<6754, 6754>>, <<6757, 6764>>, <<6771, 6780>>,
     <<6783, 6783>>, <<6823, 6823>>, <<6832, 6877>>, <<6880, 6891>>,
     <<6912, 6915>>, <<6964, 6964>>, <<6966, 6970>>, <<6972, 6972>>,
     <<6978, 6978>>, <<7019, 7027>>, <<7040, 7041>>, <<7074, 7077>>,
     <<7080, 7081>>, <<7083, 7085>>, <<7142, 7142>>, <<7144, 7145>>,
     <<7149, 7149>>, <<7151, 7153>>, <<7212, 7219>>, <<7222, 7223>>,
     <<7288, 7293>>, <<7376, 7378>>, <<7380, 7392>>, <<7394, 7400>>,
     <<7405, 7405>>, <<7412, 7412>>, <<7416, 7417>>, <<7468, 7530>>,
     <<7544, 7544>>, <<7579, 7679>>, <<8125, 8125>>, <<8127, 8129>>,
     <<8141, 8143>>, <<8157, 8159>>, <<8173, 8175>>, <<8189, 8190>>,
     <<8203, 8207>>, <<8216, 8217>>, <<8228, 8228>>, <<8231, 8231>>,
     <<8234, 8238>>, <<8288, 8292>>, <<8294, 8303>>, <<8305, 8305>>,
     <<8319, 8319>>, <<8336, 8348>>, <<8400, 8432>>, <<11388, 11389>>,
     <<11503, 11505>>, <<11631, 11631>>, <<11647, 11647>>, <<11744, 11775>>,
     <<11823, 11823>>, <<12293, 12293>>, <<12330, 12333>>, <<12337, 12341>>,
     <<12347, 12347>>, <<12441, 12446>>, <<12540, 12542>>, <<40981, 40981>>,
     <<42232, 42237>>, <<42508, 42508>>, <<42607, 42610>>, <<42612, 42621>>,
     <<42623, 42623>>, <<42652, 42655>>, <<42736, 42737>>, <<42752, 42785>>,
     <<42864, 42864>>, <<42888, 42890>>, <<42993, 42996>>, <<43000, 43001>>,
     <<43010, 43010>>, <<43014, 43014>>, <<43019, 43019>>, <<43045, 43046>>,
     <<43052, 43052>>, <<43204, 43205>>, <<43232, 43249>>, <<43263, 43263>>,
     <<43302, 43309>>, <<43335, 43345>>, <<43392, 43394>>, <<43443, 43443>>,
     <<43446, 43449>>, <<43452, 43453>>, <<43471, 43471>>, <<43493, 43494>>,
     <<43561, 43566>>, <<43569, 43570>>, <<43573, 43574>>, <<43587, 43587>>,
     <<43596, 43596>>, <<43632, 43632>>, <<43644, 43644>>, <<43696, 43696>>,
     <<43698, 43700>>, <<43703, 43704>>, <<43710, 43711>>, <<43713, 43713>>,
     <<43741, 43741>>, <<43756, 43757>>, <<43763, 43764>>, <<43766, 43766>>,
     <<43867, 43871>>, <<43881, 43883>>, <<44005, 44005>>, <<44008, 44008>>,
     <<44013, 44013>>, <<64286, 64286>>, <<64434, 64450>>, <<65024, 65039>>,
     <<65043, 65043>>, <<65056, 65071>>, <<65106, 65106>>, <<65109, 65109>>,
     <<65279, 65279>>, <<65287, 65287>>, <<65294, 65294>>, <<65306, 65306>>,
     <<65342, 65342>>, <<65344, 65344>>, <<65392, 65392>>, <<65438, 65439>>,
     <<65507, 65507>>, <<65529, 65531>>, <<66045, 66045>>, <<66272, 66272>>,
     <<66422, 66426>>, <<67456, 67461>>, <<67463, 67504>>, <<67506, 67514>>,
     <<68097, 68099>>, <<68101, 68102>>, <<68108, 68111>>, <<68152, 68154>>,
     <<68159, 68159>>, <<68325, 68326>>, <<68900, 68903>>, <<68942, 68942>>,
     <<68969, 68973>>, <<68975, 68975>>, <<69291, 69292>>, <<69317, 69317>>,
     <<69370, 69375>>, <<69446, 69456>>, <<69506, 69509>>, <<69633, 69633>>,
     <<69688, 69702>>, <<69744, 69744>>, <<69747, 69748>>, <<69759, 69761>>,
     <<69811, 69814>>, <<69817, 69818>>, <<69821, 69821>>, <<69826, 69826>>,
     <<69837, 69837>>, <<69888, 69890>>, <<69927, 69931>>, <<69933, 69940>>,
     <<70003, 70003>>, <<70016, 70017>>, <<70070, 70078>>, <<70089, 70092>>,
     <<70095, 70095>>, <<70191, 70193>>, <<70196, 70196>>, <<70198, 70199>>,
     <<70206, 70206>>, <<70209, 70209>>, <<70367, 70367>>, <<70371, 70378>>,
     <<70400, 70401>>, <<70459, 70460>>, <<70464, 70464>>, <<70502, 70508>>,
     <<70512, 70516>>, <<70587, 70592>>, <<70606, 70606>>, <<70608, 70608>>,
     <<70610, 70610>>, <<70625, 70626>>, <<70712, 70719>>, <<70722, 70724>>,
     <<70726, 70726>>, <<70750, 70750>>, <<70835, 70840>>, <<70842, 70842>>,
     <<70847, 70848>>, <<70850, 70851>>, <<71090, 71093>>, <<71100, 71101>>,
     <<71103, 71104>>, <<71132, 71133>>, <<71219, 71226>>, <<71229, 71229>>,
     <<71231, 71232>>, <<71339, 71339>>, <<71341, 71341>>, <<71344, 71349>>,
     <<71351, 71351>>, <<71453, 71453>>, <<71455, 71455>>, <<71458, 71461>>,
     <<71463, 71467>>, <<71727, 71735>>, <<71737, 71738>>, <<71995, 71996>>,
     <<71998, 71998>>, <<72003, 72003>>, <<72148, 72151>>, <<72154, 72155>>,
     <<72160, 72160>>, <<72193, 72202>>, <<72243, 72248>>, <<72251, 72254>>,
     <<72263, 72263>>, <<72273, 72278>>, <<72281, 72283>>, <<72330, 72342>>,
     <<72344, 72345>>, <<72544, 72544>>, <<72546, 72548>>, <<72550, 72550>>,
     <<72752, 72758>>, <<72760, 72765>>, <<72767, 72767>>, <<72850, 72871>>,
     <<72874, 72880>>, <<72882, 72883>>, <<72885, 72886>>, <<73009, 73014>>,
     <<73018, 73018>>, <<73020, 73021>>, <<73023, 73029>>, <<73031, 73031>>,
     <<73104, 73105>>, <<73109, 73109>>, <<73111, 73111>>, <<73177, 73177>>,
     <<73459, 73460>>, <<73472, 73473>>, <<73526, 73530>>, <<73536, 73536>>,
     <<73538, 73538>>, <<73562, 73562>>, <<78896, 78912>>, <<78919, 78933>>,
     <<90398, 90409>>, <<90413, 90415>>, <<92912, 92916>>, <<92976, 92982>>,
     <<92992, 92995>>, <<93504, 93506>>, <<93547, 93548>>, <<94031, 94031>>,
     <<94095, 94111>>, <<94176, 94177>>, <<94179, 94180>>, <<94194, 94195>>,
     <<110576, 110579>>, <<110581, 110587>>, <<110589, 110590>>,
     <<113821, 113822>>, <<113824, 113827>>, <<118528, 118573>>,
     <<118576, 118598>>, <<119143, 119145>>, <<119155, 119170>>,
     <<119173, 119179>>, <<119210, 119213>>, <<119362, 119364>>,
     <<121344, 121398>>, <<121403, 121452>>, <<121461, 121461>>,
     <<121476, 121476>>, <<121499, 121503>>, <<121505, 121519>>,
     <<122880, 122886>>, <<122888, 122904>>, <<122907, 122913>>,
     <<122915, 122916>>, <<122918, 122922>>, <<122928, 122989>>,
     <<123023, 123023>>, <<123184, 123197>>, <<123566, 123566>>,
     <<123628, 123631>>, <<124139, 124143>>, <<124398, 124399>>,
     <<124643, 124643>>, <<124646, 124646>>, <<124654, 124655>>,
     <<124661, 124661>>, <<124671, 124671>>, <<125136, 125142>>,
     <<125252, 125259>>, <<127995, 127999>>, <<917505, 917505>>,
     <<917536, 917631>>, <<917760, 917999>>}

IsHighSurrogate(u) == u \in 55296..56319

IsLowSurrogate(u) == u \in 56320..57343

\* The code points of a string; a surrogate without its partner stands for
\* itself
codePoints(s) ==
    LET n == Len(s)
        second(k) == k > 1 /\ IsLowSurrogate(s[k]) /\ IsHighSurrogate(s[k - 1])
        first(k) == k < n /\ IsHighSurrogate(s[k]) /\ IsLowSurrogate(s[k + 1])
        at == Positions(s, LAMBDA k : ~second(k))
    IN  [j \in 1..Len(at) |->
            LET k == at[j]
            IN  IF first(k)
                THEN 65536 + (s[k] - 55296) * 1024 + (s[k + 1] - 56320)
                ELSE s[k]]

\* The code units of a code point
codeUnits(c) ==
    IF c < 65536 THEN <<c>>
    ELSE <<55296 + ((c - 65536) \div 1024), 56320 + ((c - 65536) % 1024)>>

InRanges(c, ranges) == \E r \in ranges : r[1] <= c /\ c <= r[2]

\* Final_Sigma: a cased letter, then case-ignorable characters before the
\* sigma, and no cased letter after the case-ignorable characters behind it
FinalSigmaBetween(cps, before, after) ==
    /\ before # {}
    /\ InRanges(cps[Greatest(before)], CasedRanges)
    /\ after = {} \/ ~InRanges(cps[Least(after)], CasedRanges)

FinalSigma(cps, j) ==
    FinalSigmaBetween(cps,
        {k \in 1..(j - 1) : ~InRanges(cps[k], CaseIgnorableRanges)},
        {k \in (j + 1)..Len(cps) : ~InRanges(cps[k], CaseIgnorableRanges)})

\* The lower case of the code point at j, as code units; below U+00C0 only
\* A-Z change
\* The code point c moved by the range of LowerCaseRanges it is in
LowerInRange(c, hit) ==
    IF hit = {} THEN codeUnits(c)
    ELSE codeUnits(c + (CHOOSE r \in hit : TRUE)[4])

LowerCodePoint(cps, j) ==
    LET c == cps[j]
    IN  IF c < 192 THEN <<IF c \in 65..90 THEN c + 32 ELSE c>>
        ELSE IF c = 304 THEN <<105, 775>>
        ELSE IF c = 931 THEN (IF FinalSigma(cps, j) THEN <<962>> ELSE <<963>>)
        ELSE LowerInRange(c, {r \in LowerCaseRanges :
                                 r[1] <= c /\ c <= r[2]
                                 /\ (c - r[1]) % r[3] = 0})

\* The lower case of each of the code points
LowerCodePoints(cps) == flat([j \in 1..Len(cps) |-> LowerCodePoint(cps, j)])

toLowerCase(s) == LowerCodePoints(codePoints(s))

\* process.platform of the server and of the extension host; path is
\* path.posix
platform == "linux"

pathSep == Ord["/"]

\* path.dirname (posix)
dirname(path) ==
    LET n == Len(path)
        hasRoot == n > 0 /\ path[1] = pathSep
        \* the 0-based indexes from 1 on, which the loop visits
        names == {x \in 1..(n - 1) : path[x + 1] # pathSep}
        slashes == IF names = {} THEN {}
                   ELSE {x \in 1..(Greatest(names) - 1) : path[x + 1] = pathSep}
        end == IF slashes = {} THEN -1 ELSE Greatest(slashes)
    IN  IF n = 0 THEN Str(".")
        ELSE IF end = -1 THEN (IF hasRoot THEN Str("/") ELSE Str("."))
        ELSE IF hasRoot /\ end = 1 THEN Str("//")
        ELSE SubSeq(path, 1, end)

\* normalizeString of path.posix on the segments of a path: res is the
\* sequence of the segments kept so far
RECURSIVE normalizeString(_, _, _)
normalizeString(segments, allowAboveRoot, res) ==
    IF segments = <<>> THEN res
    ELSE normalizeString(Tail(segments), allowAboveRoot,
             LET segment == Head(segments)
             IN  IF segment = <<>> \/ segment = Str(".") THEN res
                 ELSE IF segment = Str("..")
                 THEN IF res # <<>> /\ res[Len(res)] # Str("..")
                      THEN SubSeq(res, 1, Len(res) - 1)
                      ELSE IF allowAboveRoot THEN Append(res, segment)
                      ELSE res
                 ELSE Append(res, segment))

\* path.normalize (posix)
\* path.normalize of a path that is not empty, with what normalizeString
\* kept of it
NormalizeKept(path, kept) ==
    LET absolute == path[1] = pathSep
        trailingSeparator == path[Len(path)] = pathSep
    IN  IF kept = <<>>
        THEN (IF absolute THEN Str("/")
              ELSE IF trailingSeparator THEN Str("./") ELSE Str("."))
        ELSE (IF absolute THEN <<pathSep>> ELSE <<>>) \o kept
             \o (IF trailingSeparator THEN <<pathSep>> ELSE <<>>)

normalize(path) ==
    IF path = <<>> THEN Str(".")
    ELSE NormalizeKept(path,
             join(normalizeString(split(path, pathSep), path[1] # pathSep,
                                  <<>>), pathSep))

\* path.join (posix) of two paths
pathJoin(a, b) ==
    normalize(IF a = <<>> THEN b
              ELSE IF b = <<>> THEN a
              ELSE a \o <<pathSep>> \o b)

\* path.isAbsolute (posix)
isAbsolute(p) == p # <<>> /\ p[1] = pathSep

IsSeparator(u) == u = Ord["\\"] \/ u = Ord["/"]

IsAsciiLetter(u) == u \in 65..90 \/ u \in 97..122

\* pbp-parser.ts lines 358-369
\* p.replace(/^\.\/[\\/]/, '')
StripDotSlash(p) ==
    IF Len(p) >= 3 /\ startsWith(p, Str("./")) /\ IsSeparator(p[3])
    THEN From(p, 4) ELSE p

\* p.replace(/^\.\\/, '')
StripDotBackslash(p) == IF startsWith(p, Str(".\\")) THEN From(p, 3) ELSE p

\* Each code unit of p that is a separator replaced by path.sep
WithPathSep(p) ==
    [k \in 1..Len(p) |-> IF IsSeparator(p[k]) THEN pathSep ELSE p[k]]

\* p.replace(/[\\/]+/g, path.sep)
ReplaceSeparators(p) ==
    WithPathSep(Filter(p, LAMBDA k : ~(/\ IsSeparator(p[k]) /\ k > 1
                                       /\ IsSeparator(p[k - 1]))))

\* normalizeRawProjectPath of a path that trim left as p
NormalizeTrimmed(p) ==
    IF p = <<>> THEN <<>>
    ELSE ReplaceSeparators(StripDotBackslash(StripDotSlash(p)))

normalizeRawProjectPath(rawPath) == NormalizeTrimmed(trim(rawPath))

\* pbp-parser.ts lines 371-379
isAbsoluteCrossPlatform(p) ==
    \/ startsWith(p, Str("/"))
    \/ startsWith(p, Str("\\\\"))
    \/ Len(p) >= 3 /\ IsAsciiLetter(p[1]) /\ p[2] = Ord[":"] /\ IsSeparator(p[3])
    \/ isAbsolute(p)

\* pbp-parser.ts lines 347-356
\* resolveProjectPath for a raw path that normalizeRawProjectPath made p
ResolveNormalized(projectDir, p) ==
    IF p = <<>> THEN <<>>
    ELSE IF isAbsoluteCrossPlatform(p) THEN p
    ELSE normalize(pathJoin(projectDir, p))

resolveProjectPath(projectDir, rawPath) ==
    ResolveNormalized(projectDir, normalizeRawProjectPath(rawPath))

\* The first 1-based position from k on whose character is in the set, or
\* Len(s) + 1
FirstOf(s, set, k) ==
    LET at == {j \in k..Len(s) : s[j] \in set}
    IN  IF at = {} THEN Len(s) + 1 ELSE Least(at)

HexValue(u) ==
    IF u \in 48..57 THEN u - 48
    ELSE IF u \in 65..70 THEN u - 55
    ELSE IF u \in 97..102 THEN u - 87
    ELSE -1

\* The octets of a run of %XX escapes; -1 for an escape that is not
\* hexadecimal
Octets(run) ==
    [j \in 1..(Len(run) \div 3) |->
        LET h == HexValue(run[3 * j - 1])
            l == HexValue(run[3 * j])
        IN  IF h < 0 \/ l < 0 THEN -1 ELSE 16 * h + l]

\* Octets as UTF-8: ok when they encode code points, and then the string
RECURSIVE utf8(_, _)
\* The octets a UTF-8 sequence with the first octet b has, 0 for none
Utf8Length(b) ==
    IF b < 0 THEN 0
    ELSE IF b < 128 THEN 1
    ELSE IF b \in 194..223 THEN 2
    ELSE IF b \in 224..239 THEN 3
    ELSE IF b \in 240..244 THEN 4
    ELSE 0

\* The code point of the n octets from k on
Utf8CodePoint(bs, k, n) ==
    LET b == bs[k]
        c(j) == bs[k + j] - 128
    IN  IF n = 1 THEN b
        ELSE IF n = 2 THEN (b - 192) * 64 + c(1)
        ELSE IF n = 3 THEN (b - 224) * 4096 + c(1) * 64 + c(2)
        ELSE (b - 240) * 262144 + c(1) * 4096 + c(2) * 64 + c(3)

\* The n octets from k on encode the code point cp
Utf8Good(bs, k, n, cp) ==
    /\ n >= 1
    /\ k + n - 1 <= Len(bs)
    /\ \A j \in 1..(n - 1) : bs[k + j] \in 128..191
    /\ n = 3 => cp >= 2048 /\ cp \notin 55296..57343
    /\ n = 4 => cp \in 65536..1114111

\* The code units of cp before the decoded rest r
Utf8Before(cp, r) == [ok |-> r.ok, units |-> codeUnits(cp) \o r.units]

Utf8At(bs, k, n, cp) ==
    IF ~Utf8Good(bs, k, n, cp)
    THEN [ok |-> FALSE, units |-> <<>>]
    ELSE Utf8Before(cp, utf8(bs, k + n))

utf8(bs, k) ==
    IF k > Len(bs) THEN [ok |-> TRUE, units |-> <<>>]
    ELSE Utf8At(bs, k, Utf8Length(bs[k]),
                Utf8CodePoint(bs, k, Utf8Length(bs[k])))

\* decodeURIComponentGraceful of vscode-uri on a run of %XX escapes: what
\* decodeURIComponent returns, and when it throws the first escape as it
\* is and the rest decoded
RECURSIVE decodeURIComponentGraceful(_)
decodeURIComponentOr(str, r) ==
    IF r.ok THEN r.units
    ELSE IF Len(str) > 3
    THEN SubSeq(str, 1, 3) \o decodeURIComponentGraceful(From(str, 4))
    ELSE str

decodeURIComponentGraceful(str) ==
    decodeURIComponentOr(str, utf8(Octets(str), 1))

IsAlphaNumeric(u) == u \in 48..57 \/ IsAsciiLetter(u)

\* percentDecode of vscode-uri: every maximal run of /(%[0-9A-Za-z]{2})+/
\* is decoded
RECURSIVE percentDecode(_)
percentDecode(str) ==
    LET escape(k) == /\ k + 2 <= Len(str) /\ str[k] = Ord["%"]
                     /\ IsAlphaNumeric(str[k + 1]) /\ IsAlphaNumeric(str[k + 2])
        at == {k \in 1..Len(str) : escape(k)}
        k0 == Least(at)
        \* the escapes of the run that starts at k0
        run == {j \in 0..(Len(str) \div 3) :
                    \A q \in 0..j : escape(k0 + 3 * q)}
        end == k0 + 3 * Greatest(run) + 2
    IN  IF at = {} THEN str
        ELSE SubSeq(str, 1, k0 - 1)
             \o decodeURIComponentGraceful(SubSeq(str, k0, end))
             \o percentDecode(From(str, end + 1))

\* _schemeFix of vscode-uri: a uri without a scheme is a file uri
schemeFix(scheme) == IF scheme = <<>> THEN Str("file") ELSE scheme

\* _referenceResolution of vscode-uri
referenceResolution(scheme, path) ==
    IF scheme \in {Str("https"), Str("http"), Str("file")}
    THEN (IF path = <<>> THEN Str("/")
          ELSE IF path[1] # Ord["/"] THEN Str("/") \o path
          ELSE path)
    ELSE path

\* _validateUri of vscode-uri passes: _schemePattern = /^\w[\w\d+.-]*$/,
\* and the path begins with / under an authority and not with // without
validateUri(scheme, authority, path) ==
    /\ IsWordChar(scheme[1])
    /\ \A k \in 2..Len(scheme) :
          \/ IsWordChar(scheme[k])
          \/ scheme[k] \in {Ord["+"], Ord["."], Ord["-"]}
    /\ \/ path = <<>>
       \/ authority # <<>> /\ path[1] = Ord["/"]
       \/ authority = <<>> /\ ~startsWith(path, Str("//"))

\* The Uri the constructor builds of a scheme, an authority and a path, and
\* whether it throws
UriOfComponents(scheme, authority, path) ==
    [threw |-> ~validateUri(scheme, authority, path), scheme |-> scheme,
     authority |-> authority, path |-> path]

\* new Uri(match[2], percentDecode(match[4]), percentDecode(match[5])) for
\* the groups 2, 4 and 5 of the match of _regexp
UriOfMatch(scheme, match4, match5) ==
    UriOfComponents(scheme, percentDecode(match4),
                    referenceResolution(scheme, percentDecode(match5)))

\* The groups 4 and 5 of _regexp behind the scheme: the authority stands
\* from the position from up to b, where the path begins
UriBehindScheme(value, scheme, from, b) ==
    UriOfMatch(schemeFix(scheme),
               SubSeq(value, from, b - 1),
               SubSeq(value, b, FirstOf(value, {Ord["?"], Ord["#"]}, b) - 1))

\* //[^/?#]* of _regexp stands at the position a
HasAuthority(value, a) == At(value, Str("//"), a)

\* The authority of _regexp at the position a, or none
UriBehindColon(value, scheme, a) ==
    UriBehindScheme(value, scheme,
                    IF HasAuthority(value, a) THEN a + 2 ELSE a,
                    IF HasAuthority(value, a)
                    THEN FirstOf(value, {Ord["/"], Ord["?"], Ord["#"]}, a + 2)
                    ELSE a)

\* [^:/?#]+: of _regexp ends at the position c
HasScheme(value, c) == c >= 2 /\ c <= Len(value) /\ value[c] = Ord[":"]

\* The scheme of _regexp before the first delimiter, at c, or none
UriAtDelimiter(value, c) ==
    UriBehindColon(value,
                   IF HasScheme(value, c) THEN SubSeq(value, 1, c - 1) ELSE <<>>,
                   IF HasScheme(value, c) THEN c + 1 ELSE 1)

\* URI.parse of vscode-uri: scheme, authority and path of the uri, and
\* whether the constructor throws (_validateUri)
UriParse(value) ==
    UriAtDelimiter(value,
        FirstOf(value, {Ord[":"], Ord["/"], Ord["?"], Ord["#"]}, 1))

\* uriToFsPath of vscode-uri, on a platform other than Windows
uriToFsPath(uri) ==
    IF uri.authority # <<>> /\ Len(uri.path) > 1 /\ uri.scheme = Str("file")
    THEN Str("//") \o uri.authority \o uri.path
    ELSE IF /\ Len(uri.path) >= 3 /\ uri.path[1] = Ord["/"]
            /\ IsAsciiLetter(uri.path[2]) /\ uri.path[3] = Ord[":"]
    THEN toLowerCase(<<uri.path[2]>>) \o From(uri.path, 3)
    ELSE uri.path

\* URI.parse(uri).fsPath, for a uri on which URI.parse does not throw
fsPath(uri) == uriToFsPath(UriParse(uri))

\* The paths of the model
PathA  == Str("/a.pb")
PathAi == Str("/a.pbi")
PathB  == Str("/b.pb")
PathP  == Str("/p.pbp")
PathQ  == Str("/q.PBP")

\* The uri of a document of the file system
UriOf(path) == Str("file://") \o path
-----------------------------------------------------------------------------
(* The .pbp parser *)

\* The first 1-based position from k on whose character is not in the set,
\* or Len(s) + 1: where a greedy run that starts at k ends
SkipWhile(s, set, k) ==
    LET at == {j \in k..Len(s) : s[j] \notin set}
    IN  IF at = {} THEN Len(s) + 1 ELSE Least(at)

\* The first 1-based position from k on at which t stands under the /i
\* flag, or 0
Find(s, t, k) ==
    LET at == {j \in k..(Len(s) - Len(t) + 1) : AtFolded(s, t, j)}
    IN  IF at = {} THEN 0 ELSE Least(at)

\* String.prototype.replace(/t/g, by) for a literal t that is not empty
RECURSIVE replaceAll(_, _, _)
replaceAll(s, t, by) ==
    LET x == indexOf(s, t)
    IN  IF x < 0 THEN s
        ELSE SubSeq(s, 1, x) \o by \o replaceAll(From(s, x + Len(t) + 1), t, by)

\* lines 343-345: replace(/\r\n/g, '\n').replace(/\r/g, '\n')
normalizeNewlines(content) ==
    LET CR == Ord["\r"]
        kept == Filter(content,
                       LAMBDA k : ~(/\ content[k] = CR /\ k < Len(content)
                                    /\ content[k + 1] = LF))
    IN  [k \in 1..Len(kept) |-> IF kept[k] = CR THEN LF ELSE kept[k]]

\* lines 406-414
decodeXmlEntities(s) ==
    replaceAll(replaceAll(replaceAll(replaceAll(replaceAll(s,
        Str("&quot;"), Str("\"")), Str("&apos;"), Str("'")),
        Str("&lt;"), Str("<")), Str("&gt;"), Str(">")), Str("&amp;"), Str("&"))

\* lines 381-385: v is <<>> for undefined
parseBool(v) ==
    /\ Truthy(v)
    /\ toLowerCase(trim(v[1])) \in {Str("1"), Str("true"), Str("yes")}

\* <tag\b of a regular expression with the /i flag at the position a
TagAt(s, tag, a) ==
    /\ a <= Len(s) /\ s[a] = Ord["<"]
    /\ AtFolded(s, tag, a + 1)
    /\ ~WordAt(s, a + 1 + Len(tag))

\* /<\?xml\b[\s\S]*?<project\b/i.test(content), line 85
IsXml(content) ==
    \E a \in 1..Len(content) :
        /\ AtFolded(content, Str("<?xml"), a)
        /\ ~WordAt(content, a + 5)
        /\ \E b \in (a + 5)..Len(content) : TagAt(content, Str("project"), b)

\* /<section\b[^>]*\bname="sectionName"[^>]*>([\s\S]*?)<\/section>/i matches
\* at the position a: attribute is name="sectionName" and close the
\* position of the first > behind the tag
SectionAt(content, attribute, a, close) ==
    /\ TagAt(content, Str("section"), a)
    /\ \E k \in (a + 8)..(close - Len(attribute)) :
            AtFolded(content, attribute, k) /\ ~WordAt(content, k - 1)
    /\ Find(content, Str("</section>"), close + 1) > 0

\* The group 1 of the match whose opening tag ends at the position g
SectionBody(content, g) ==
    <<SubSeq(content, g + 1, Find(content, Str("</section>"), g + 1) - 1)>>

\* The group 1 of the first of the matches, which are at the positions at
SectionAmong(content, at) ==
    IF at = {} THEN <<>>
    ELSE SectionBody(content, FirstOf(content, {Ord[">"]}, Least(at) + 8))

\* lines 290-294: the first match of
\* /<section\b[^>]*\bname="sectionName"[^>]*>([\s\S]*?)<\/section>/i,
\* <<>> for null and <<body>> otherwise
extractSection(content, sectionName) ==
    SectionAmong(content,
        {a \in 1..Len(content) :
            SectionAt(content, Str("name=\"") \o sectionName \o Str("\""), a,
                      FirstOf(content, {Ord[">"]}, a + 8))})

\* The closing quote of name="..." at the position k, and the first >
\* behind it
FileQuote(s, k) == FirstOf(s, {Ord["\""]}, k + 6)

FileClose(s, k) == FirstOf(s, {Ord[">"]}, FileQuote(s, k) + 1)

\* \bname="([^"]+)"[^>]*> of the pattern of line 168 stands at the position
\* k with </file> behind it, and for selfClosed \bname="([^"]+)"[^>]*\/> of
\* the pattern of line 185
FileNameAt(s, k, selfClosed, quote, close) ==
    /\ AtFolded(s, Str("name=\""), k) /\ ~WordAt(s, k - 1)
    /\ quote > k + 6 /\ quote <= Len(s)
    /\ close <= Len(s)
    /\ IF selfClosed
       THEN close - 1 > quote /\ s[close - 1] = Ord["/"]
       ELSE Find(s, Str("</file>"), close + 1) > 0

\* The group 1 and the 1-based lastIndex + 1 of the match with name=" at k
FileMatch(s, k, selfClosed, quote, close) ==
    [name |-> SubSeq(s, k + 6, quote - 1),
     next |-> IF selfClosed THEN close + 1
              ELSE Find(s, Str("</file>"), close + 1) + 7]

\* The match with the last of the positions at of name=", which the greedy
\* [^>]* before it takes
FileAmong(s, selfClosed, at) ==
    IF at = {} THEN <<>>
    ELSE <<FileMatch(s, Greatest(at), selfClosed,
                     FileQuote(s, Greatest(at)), FileClose(s, Greatest(at)))>>

\* The match at the position a of
\* /<file\b[^>]*\bname="([^"]+)"[^>]*>([\s\S]*?)<\/file>/gi (line 168) and,
\* when selfClosed, of /<file\b[^>]*\bname="([^"]+)"[^>]*\/>/gi (line 185):
\* <<>> when there is none, else the group 1 and the 1-based lastIndex + 1
FileAt(s, a, selfClosed) ==
    IF ~TagAt(s, Str("file"), a) THEN <<>>
    ELSE FileAmong(s, selfClosed,
             {k \in (a + 5)..Min(FirstOf(s, {Ord[">"]}, a + 5), Len(s)) :
                 FileNameAt(s, k, selfClosed, FileQuote(s, k),
                            FileClose(s, k))})

\* The group 1 of the successive matches from the position from on
RECURSIVE FileMatches(_, _, _)
FileMatchesBehind(s, m, selfClosed) ==
    <<m.name>> \o FileMatches(s, m.next, selfClosed)

FileMatchesAmong(s, at, selfClosed) ==
    IF at = {} THEN <<>>
    ELSE FileMatchesBehind(s, FileAt(s, Least(at), selfClosed)[1], selfClosed)

FileMatches(s, from, selfClosed) ==
    FileMatchesAmong(s, {a \in from..Len(s) : FileAt(s, a, selfClosed) # <<>>},
                     selfClosed)

FileEntry(projectDir, rawPath) ==
    [rawPath |-> rawPath, fsPath |-> resolveProjectPath(projectDir, rawPath)]

\* lines 184-194: a self-closed element is skipped when its rawPath is in
\* the result
RECURSIVE PushSelfClosed(_, _, _)
PushSelfClosed(result, names, projectDir) ==
    IF names = <<>> THEN result
    ELSE LET rawPath == trim(Head(names))
         IN  PushSelfClosed(
                 IF \E n \in 1..Len(result) : result[n].rawPath = rawPath
                 THEN result
                 ELSE Append(result, FileEntry(projectDir, rawPath)),
                 Tail(names), projectDir)

\* lines 168-181: the entries of the elements with a body
BodyEntries(names, projectDir) ==
    [n \in 1..Len(names) |-> FileEntry(projectDir, trim(names[n]))]

\* lines 163-196 for the section extractSection returned
FilesOfSection(filesSection, projectDir) ==
    IF ~Truthy(filesSection) THEN <<>>
    ELSE PushSelfClosed(
             BodyEntries(FileMatches(filesSection[1], 1, FALSE), projectDir),
             FileMatches(filesSection[1], 1, TRUE), projectDir)

\* lines 161-197, without the config of a file
parseProjectFiles(content, projectDir) ==
    FilesOfSection(extractSection(content, Str("files")), projectDir)

\* The match of /(\w+)\s*=\s*"([^"]*)"/g at the position a (line 389)
AttributeAt(s, a) ==
    LET r == SkipWhile(s, WordChars, a)
        eq == SkipWhile(s, WhiteSpace, r)
        open == SkipWhile(s, WhiteSpace, eq + 1)
        close == FirstOf(s, {Ord["\""]}, open + 1)
    IN  IF /\ WordAt(s, a)
           /\ eq <= Len(s) /\ s[eq] = Ord["="]
           /\ open <= Len(s) /\ s[open] = Ord["\""]
           /\ close <= Len(s)
        THEN <<[key |-> SubSeq(s, a, r - 1),
                value |-> SubSeq(s, open + 1, close - 1),
                next |-> close + 1]>>
        ELSE <<>>

\* attrs[key] = value on the object literal of line 388, for a string value
\* (line 392): the key __proto__ names the accessor of Object.prototype, whose
\* setter ignores a value that is neither an object nor null, so that the
\* object gets no property
AssignProperty(attrs, key, value) ==
    IF key = Str("__proto__") THEN attrs ELSE MapSet(attrs, key, value)

\* lines 387-395: the own properties of the record, from the name to the
\* value
RECURSIVE parseAttributesFrom(_, _, _)
parseAttributesBehind(attrText, m, attrs) ==
    parseAttributesFrom(attrText, m.next,
        AssignProperty(attrs, m.key, decodeXmlEntities(m.value)))

parseAttributesAmong(attrText, at, attrs) ==
    IF at = {} THEN attrs
    ELSE parseAttributesBehind(attrText, AttributeAt(attrText, Least(at))[1],
                               attrs)

parseAttributesFrom(attrText, from, attrs) ==
    parseAttributesAmong(attrText,
        {a \in from..Len(attrText) : AttributeAt(attrText, a) # <<>>}, attrs)

parseAttributes(attrText) == parseAttributesFrom(attrText, 1, EmptyMap)

\* The first > behind <target at the position a, and the </target> behind it
TargetClose(s, a) == FirstOf(s, {Ord[">"]}, a + 7)

TargetEnd(s, a) == Find(s, Str("</target>"), TargetClose(s, a) + 1)

\* /<target\b([^>]*)>([\s\S]*?)<\/target>/gi (line 205) matches at a
TargetAt(s, a) ==
    /\ TagAt(s, Str("target"), a)
    /\ TargetClose(s, a) <= Len(s)
    /\ TargetEnd(s, a) > 0

\* lines 208-213: name, enabled and isDefault of a target with the
\* attributes attrs, of which name is the one called name
TargetNamed(attrs, name) ==
    [name |-> trim(IF name = <<>> THEN <<>> ELSE name[1]),
     enabled |-> parseBool(MapGet(attrs, Str("enabled"))),
     isDefault |-> parseBool(MapGet(attrs, Str("default")))]

TargetOf(attrs) == TargetNamed(attrs, MapGet(attrs, Str("name")))

\* The targets of the successive matches from the position from on
RECURSIVE TargetMatches(_, _)
TargetMatchesAt(s, a) ==
    <<TargetOf(parseAttributes(SubSeq(s, a + 7, TargetClose(s, a) - 1)))>>
    \o TargetMatches(s, TargetEnd(s, a) + 9)

TargetMatchesAmong(s, at) ==
    IF at = {} THEN <<>> ELSE TargetMatchesAt(s, Least(at))

TargetMatches(s, from) ==
    TargetMatchesAmong(s, {a \in from..Len(s) : TargetAt(s, a)})

\* lines 200-260 for the section extractSection returned
TargetsOfSection(targetsSection) ==
    IF ~Truthy(targetsSection) THEN <<>>
    ELSE TargetMatches(targetsSection[1], 1)

\* lines 199-261, without the files, the options, the format, the icon and
\* the constants of a target
parseProjectTargets(content) ==
    TargetsOfSection(extractSection(content, Str("targets")))

\* lines 129-143, without the name and the comment of the project
parseXmlProject(content, projectFileFsPath, projectDir) ==
    [projectFile |-> projectFileFsPath, projectDir |-> projectDir,
     files |-> parseProjectFiles(content, projectDir),
     targets |-> parseProjectTargets(content)]

\* The loop of parseIniProject (lines 305-330) from the line k on
RECURSIVE IniFiles(_, _, _, _)
IniFiles(ls, k, currentSection, projectDir) ==
    IF k > Len(ls) THEN <<>>
    ELSE LET line == trim(ls[k])
             eq == indexOf(line, Str("="))
             key == trim(SubSeq(line, 1, eq))
             value == trim(From(line, eq + 2))
         IN  IF line = <<>> \/ startsWith(line, Str(";"))
             THEN IniFiles(ls, k + 1, currentSection, projectDir)
             ELSE IF startsWith(line, Str("[")) /\ endsWith(line, Str("]"))
             THEN IniFiles(ls, k + 1, SubSeq(line, 2, Len(line) - 1),
                           projectDir)
             ELSE IF eq < 0
             THEN IniFiles(ls, k + 1, currentSection, projectDir)
             ELSE (IF /\ currentSection = Str("Files")
                      /\ startsWith(toLowerCase(key), Str("source"))
                   THEN <<FileEntry(projectDir, value)>>
                   ELSE <<>>)
                  \o IniFiles(ls, k + 1, currentSection, projectDir)

\* lines 296-341, without the name and the comment of the project
parseIniProject(content, projectFileFsPath, projectDir) ==
    [projectFile |-> projectFileFsPath, projectDir |-> projectDir,
     files |-> IniFiles(split(content, LF), 1, <<>>, projectDir),
     targets |-> <<>>]

\* lines 79-94 with the default allowIniFallback = true: never null
parseNormalized(normalized, projectFileFsPath, projectDir) ==
    IF IsXml(normalized)
    THEN parseXmlProject(normalized, projectFileFsPath, projectDir)
    ELSE parseIniProject(normalized, projectFileFsPath, projectDir)

parsePbpProjectText(content, projectFileFsPath) ==
    parseNormalized(normalizeNewlines(content), projectFileFsPath,
                    dirname(projectFileFsPath))

\* lines 96-101: <<>> for null
selectDefaultTarget(project) ==
    LET explicitDefault ==
            SelectSeq(project.targets, LAMBDA t : t.enabled /\ t.isDefault)
        firstEnabled == SelectSeq(project.targets, LAMBDA t : t.enabled)
    IN  IF explicitDefault # <<>> THEN <<explicitDefault[1]>>
        ELSE IF firstEnabled # <<>> THEN <<firstEnabled[1]>>
        ELSE <<>>

FsPaths(project) == [n \in 1..Len(project.files) |-> project.files[n].fsPath]

\* lines 103-107
getProjectSourceFiles(project) ==
    SelectSeq(FsPaths(project),
              LAMBDA p : endsWith(toLowerCase(p), Str(".pb")))

\* lines 109-113
getProjectIncludeFiles(project) ==
    SelectSeq(FsPaths(project),
              LAMBDA p : endsWith(toLowerCase(p), Str(".pbi")))
-----------------------------------------------------------------------------

(* The .pbp texts of the documents and of the disk *)

RawA  == Str("a.pb")

\* The text of an XML project with the sections files and targets
PbpXml(files, targets) ==
    Str("<?xml version=\"1.0\"?>\n<project>\n<section name=\"files\">\n")
    \o files \o Str("</section>\n<section name=\"targets\">\n")
    \o targets \o Str("</section>\n</project>\n")

\* <file name="rawPath"/>
FileSelfClosed(rawPath) ==
    Str("<file name=\"") \o rawPath \o Str("\"/>\n")

\* <file name="rawPath"> with a body
FileWithBody(rawPath) ==
    Str("<file name=\"") \o rawPath
    \o Str("\">\n<config load=\"0\"/>\n</file>\n")

\* .pbp texts: XML listing a.pb and b.pb, and a.pb once more; XML listing
\* b.pb by its absolute path in an element with a body; the legacy format
\* listing a.pbi
PbpAB == PbpXml(FileSelfClosed(RawA) \o FileSelfClosed(Str("./b.pb"))
                \o FileSelfClosed(Str(" a.pb ")), <<>>)
PbpB  == PbpXml(FileWithBody(PathB), <<>>)
PbpLegacy == Str("[Files]\r\nSource0 = /a.pbi\r\n")

\* <target name="name" enabled="1" default="isDefault"> with a body
Target(name, isDefault) ==
    Str("<target name=\"") \o name \o Str("\" enabled=\"1\" default=\"")
    \o isDefault \o Str("\">\n<inputfile value=\"a.pb\"/>\n</target>\n")

\* .pbp texts on the disk: a.pb and one target; b.pb and two targets, the
\* second one the default
PbpOne == PbpXml(FileWithBody(RawA), Target(Str("Release"), Str("0")))
PbpTwo == PbpXml(FileWithBody(PathB),
                 Target(Str("Release"), Str("0"))
                 \o Target(Str("Debug"), Str("1")))

\* Each of these texts at each project path with its parsePbpProjectText,
\* computed once
ParsedTexts ==
    {<<d, parsePbpProjectText(d[1], d[2])>> :
        d \in {PbpAB, PbpB, PbpLegacy, PbpOne, PbpTwo} \X {PathP, PathQ}}

\* parsePbpProjectText(content, projectFileFsPath), looked up when computed
ParsedAmong(hit, content, projectFileFsPath) ==
    IF hit = {} THEN parsePbpProjectText(content, projectFileFsPath)
    ELSE (CHOOSE e \in hit : TRUE)[2]

Parsed(content, projectFileFsPath) ==
    ParsedAmong({e \in ParsedTexts : e[1] = <<content, projectFileFsPath>>},
                content, projectFileFsPath)
-----------------------------------------------------------------------------

(* The project parser of the server and the symbols of a source file *)

\* project-parser lines 123-125, for a uri on which URI.parse does not throw
isProjectFile(uri) == endsWith(toLowerCase(fsPath(uri)), Str(".pbp"))

\* project-parser lines 78-113: the fields of the project the manager reads
mapToServerProjectFile(documentUri, pbp) ==
    [sourceFiles |-> getProjectSourceFiles(pbp),
     includeFiles |-> getProjectIncludeFiles(pbp),
     filePath |-> documentUri]

\* project-parser lines 58-76; <<>> stands for null, which the catch returns
\* when URI.parse throws
parseProjectFile(uri, content) ==
    IF UriParse(uri).threw THEN <<>>
    ELSE <<[project |->
              mapToServerProjectFile(uri, Parsed(content, fsPath(uri)))]>>

\* project-parser lines 130-132
extractProjectFiles(project) == project.sourceFiles \o project.includeFiles

\* \s+(\w+) at the 1-based position j of a line, with \s*\( behind it when
\* paren is set: <<>> when it does not match, else the group
NameAt(line, j, paren) ==
    LET n == SkipWhile(line, WhiteSpace, j)
        r == SkipWhile(line, WordChars, n)
        q == SkipWhile(line, WhiteSpace, r)
    IN  IF /\ n > j /\ r > n
           /\ paren => q <= Len(line) /\ line[q] = Ord["("]
        THEN <<SubSeq(line, n, r - 1)>>
        ELSE <<>>

\* line.match(/(?:Procedure|Procedure\.\w+)\s+(\w+)\s*\(/), line 205:
\* <<>> for null, else the group 1 of the first match
MatchProcedure(line) ==
    LET plain(p) == NameAt(line, p + 9, TRUE)
        typed(p) ==
            IF /\ p + 9 <= Len(line) /\ line[p + 9] = Ord["."]
               /\ WordAt(line, p + 10)
            THEN NameAt(line, SkipWhile(line, WordChars, p + 10), TRUE)
            ELSE <<>>
        at == {p \in 1..Len(line) :
                  /\ At(line, Str("Procedure"), p)
                  /\ plain(p) # <<>> \/ typed(p) # <<>>}
    IN  IF at = {} THEN <<>>
        ELSE IF plain(Least(at)) # <<>> THEN plain(Least(at))
        ELSE typed(Least(at))

\* line.match(/(?:k1|k2|...)\s+(\w+)/) for the keywords k1, k2, ... (lines
\* 219, 247, 261 and 275): <<>> for null, else the group 1 of the first
\* match
MatchDefinition(line, keywords) ==
    LET name(p) ==
            LET of == {kw \in keywords :
                          /\ At(line, Str(kw), p)
                          /\ NameAt(line, p + Len(kw), FALSE) # <<>>}
            IN  IF of = {} THEN <<>>
                ELSE NameAt(line, p + Len(CHOOSE kw \in of : TRUE), FALSE)
        at == {p \in 1..Len(line) : name(p) # <<>>}
    IN  IF at = {} THEN <<>> ELSE name(Least(at))

\* line.match(/#\s*(\w+)\s*=/), line 233
MatchConstant(line) ==
    LET n(p) == SkipWhile(line, WhiteSpace, p + 1)
        r(p) == SkipWhile(line, WordChars, n(p))
        q(p) == SkipWhile(line, WhiteSpace, r(p))
        at == {p \in 1..Len(line) :
                  /\ line[p] = Ord["#"]
                  /\ r(p) > n(p)
                  /\ q(p) <= Len(line) /\ line[q(p)] = Ord["="]}
    IN  IF at = {} THEN <<>>
        ELSE <<SubSeq(line, n(Least(at)), r(Least(at)) - 1)>>

\* project-manager.ts lines 201-285: the entries one line sets, in order
LineSymbols(raw, uri, index) ==
    LET line == trim(raw)
        entry(type, match) ==
            IF match = <<>> THEN <<>>
            ELSE <<[name |-> match[1],
                    symbol |-> [type |-> type, file |-> uri, line |-> index,
                                definition |-> line]]>>
        block(type, keywords, match) ==
            IF \E kw \in keywords : startsWith(line, Str(kw))
            THEN entry(type, match)
            ELSE <<>>
    IN  block("procedure", {"Procedure", "Procedure."}, MatchProcedure(line))
        \o block("variable", {"Global", "Define"},
                 MatchDefinition(line, {"Global", "Define"}))
        \o block("constant", {"#"}, MatchConstant(line))
        \o block("structure", {"Structure"},
                 MatchDefinition(line, {"Structure"}))
        \o block("interface", {"Interface"},
                 MatchDefinition(line, {"Interface"}))
        \o block("enumeration", {"Enumeration"},
                 MatchDefinition(line, {"Enumeration"}))

RECURSIVE SetAll(_, _)
SetAll(m, entries) ==
    IF entries = <<>> THEN m
    ELSE SetAll(MapSet(m, Head(entries).name, Head(entries).symbol),
                Tail(entries))

\* The loop of parseFileSymbols (lines 200-286) from the line k on
RECURSIVE parseFileSymbolsFrom(_, _, _, _)
parseFileSymbolsFrom(ls, uri, k, globalSymbols) ==
    IF k > Len(ls) THEN globalSymbols
    ELSE parseFileSymbolsFrom(ls, uri, k + 1,
             SetAll(globalSymbols, LineSymbols(ls[k], uri, k - 1)))

\* lines 196-287
parseFileSymbols(uri, content, globalSymbols) ==
    parseFileSymbolsFrom(split(content, LF), uri, 1, globalSymbols)

\* lines 292-298
removeFileSymbols(uri, globalSymbols) ==
    MapDelete(globalSymbols,
              {n \in DOMAIN globalSymbols : globalSymbols[n].file = uri})
-----------------------------------------------------------------------------

(* ProjectManager *)

\* The state of a ProjectManager as a value
ManagerState == [projects |-> managerProjects,
                 fileToProject |-> managerFileToProject]

\* lines 86-109; parseProjectIncludes (lines 185-191) has an empty body
loadParsedProject(m, uri, parsedProject) ==
    IF parsedProject = <<>> THEN m
    ELSE [m EXCEPT !.projects =
            OrderedSet(m.projects, uri,
                       [projectFile |-> uri,
                        project |-> parsedProject[1].project,
                        includedFiles |-> {},
                        globalSymbols |-> EmptyMap])]

loadProject(m, uri, content) ==
    loadParsedProject(m, uri, parseProjectFile(uri, content))

\* unloadProject that keeps the file-to-project mapping
unloadProjectKeepFiles(m, uri) ==
    IF uri \in KeySet(m.projects)
    THEN [m EXCEPT !.projects = OrderedDelete(m.projects, uri)]
    ELSE m

\* lines 128-141
unloadProject(m, uri) ==
    IF uri \in KeySet(m.projects)
    THEN [m EXCEPT
            !.fileToProject =
                MapDelete(m.fileToProject,
                          {f \in DOMAIN m.fileToProject : m.fileToProject[f] = uri}),
            !.projects = OrderedDelete(m.projects, uri)]
    ELSE m

\* lines 114-123
reloadProject(m, uri, content) ==
    loadProject(IF uri \in KeySet(m.projects) THEN unloadProject(m, uri) ELSE m,
                uri, content)

\* The projects, in order, whose files match the path (line 154)
Matching(projects, filePath) ==
    SelectSeq(projects,
        LAMBDA en :
            LET projectFiles == extractProjectFiles(en.value.project)
            IN  \E n \in 1..Len(projectFiles) :
                    \/ includes(filePath, projectFiles[n])
                    \/ includes(projectFiles[n], filePath))

\* lines 146-163
associateFileWithProject(m, uri, content) ==
    LET found == Matching(m.projects, fsPath(uri))
    IN  IF found = <<>> THEN m
        ELSE LET projectUri == found[1].key
                 project == found[1].value
             IN  [m EXCEPT
                    !.fileToProject = MapSet(m.fileToProject, uri, projectUri),
                    !.projects =
                        OrderedSet(m.projects, projectUri,
                            [project EXCEPT
                               !.includedFiles = @ \cup {uri},
                               !.globalSymbols =
                                   parseFileSymbols(uri, content, @)])]

\* lines 168-180
removeFileFromProjects(m, uri) ==
    LET projectUri == MapGet(m.fileToProject, uri)
        project == IF ~Truthy(projectUri) THEN <<>>
                   ELSE OrderedGet(m.projects, projectUri[1])
    IN  IF ~Truthy(projectUri) \/ project = <<>> THEN m
        ELSE [m EXCEPT
                !.fileToProject = MapDelete(m.fileToProject, {uri}),
                !.projects =
                    OrderedSet(m.projects, projectUri[1],
                        [project[1] EXCEPT
                           !.includedFiles = @ \ {uri},
                           !.globalSymbols = removeFileSymbols(uri, @)])]

\* lines 303-317
updateProjectSymbols(m, uri, content) ==
    LET projectUri == MapGet(m.fileToProject, uri)
        project == IF ~Truthy(projectUri) THEN <<>>
                   ELSE OrderedGet(m.projects, projectUri[1])
    IN  IF ~Truthy(projectUri) \/ project = <<>> THEN m
        ELSE [m EXCEPT
                !.projects =
                    OrderedSet(m.projects, projectUri[1],
                        [project[1] EXCEPT
                           !.globalSymbols =
                               parseFileSymbols(uri, content,
                                   removeFileSymbols(uri, @))])]

\* lines 322-325: <<>> for null
getFileProject(m, uri) ==
    LET projectUri == MapGet(m.fileToProject, uri)
    IN  IF ~Truthy(projectUri) THEN <<>>
        ELSE OrderedGet(m.projects, projectUri[1])

\* lines 330-333
getProjectSymbols(m, uri) ==
    LET project == getFileProject(m, uri)
    IN  IF project = <<>> THEN <<>> ELSE <<project[1].globalSymbols>>

\* lines 338-344
findSymbolDefinition(m, symbolName, uri) ==
    LET symbols == getProjectSymbols(m, uri)
    IN  IF symbols = <<>> THEN <<>> ELSE MapGet(symbols[1], symbolName)

\* lines 363-365
isFileInProject(m, uri) == MapHas(m.fileToProject, uri)

-----------------------------------------------------------------------------

(* The documents the server sees and the handlers of the ProjectManager *)

ProjectTexts == {PbpAB, PbpB, PbpLegacy}

\* Source texts: a procedure foo, a variable foo, a structure bar
SrcProcedureFoo == Str("Procedure.i foo()\nEndProcedure")
SrcGlobalFoo    == Str(" Global foo")
SrcStructureBar == Str("Structure bar\r\nEndStructure")

SourceTexts == {SrcProcedureFoo, SrcGlobalFoo, SrcStructureBar}

SymbolNames == {Str("foo"), Str("bar")}

ProjectUris == {UriOf(PathP), UriOf(PathQ)}

SourceUris == {UriOf(PathA), UriOf(PathB)}

DocumentUris == ProjectUris \cup SourceUris

TextsOf(uri) == IF uri \in ProjectUris THEN ProjectTexts ELSE SourceTexts

\* lines 47-53; when URI.parse throws in isProjectFile the handler throws
\* and leaves the manager as it is
onDocumentOpen(m, uri, content) ==
    IF UriParse(uri).threw THEN m
    ELSE IF isProjectFile(uri) THEN loadProject(m, uri, content)
    ELSE associateFileWithProject(m, uri, content)

\* lines 58-68
onDocumentClose(m, uri) ==
    IF UriParse(uri).threw THEN m
    ELSE IF isProjectFile(uri) THEN unloadProject(m, uri)
    ELSE removeFileFromProjects(m, uri)

\* lines 73-81
onDocumentChange(m, uri, content) ==
    IF UriParse(uri).threw THEN m
    ELSE IF isProjectFile(uri) THEN reloadProject(m, uri, content)
    ELSE updateProjectSymbols(m, uri, content)

ManagerInit ==
    /\ documents = [uri \in DocumentUris |-> <<>>]
    /\ managerProjects = <<>>
    /\ managerFileToProject = EmptyMap

\* The formatter serves no request
FormatterIdle ==
    /\ text = LFoo
    /\ pc = "idle"
    /\ request = [kind |-> "none", range |-> <<>>, options |-> <<>>]
    /\ options = DEFAULT_OPTIONS
    /\ replaceRange = fullRange(LFoo)
    /\ initialState = <<>>
    /\ lines = <<>>
    /\ i = 0
    /\ out = <<>>
    /\ indentLevel = 0
    /\ inSelect = FALSE
    /\ selectBaseIndent = 0
    /\ caseActive = FALSE
    /\ edits = <<>>

NoStep == [handler |-> "none"]

\* The client opens a document that is closed
OnDocumentOpen ==
    \E uri \in DocumentUris :
        /\ documents[uri] = <<>>
        /\ \E content \in TextsOf(uri) :
            LET m == onDocumentOpen(ManagerState, uri, content)
            IN  /\ documents' = [documents EXCEPT ![uri] = <<content>>]
                /\ managerProjects' = m.projects
                /\ managerFileToProject' = m.fileToProject
                /\ lastStep' = [handler |-> "onDocumentOpen", uri |-> uri,
                                content |-> content]
        /\ UNCHANGED <<formatterVars, serviceVars>>

\* The client changes a document that is open
OnDocumentChange ==
    \E uri \in DocumentUris :
        /\ documents[uri] # <<>>
        /\ \E content \in TextsOf(uri) \ {documents[uri][1]} :
            LET m == onDocumentChange(ManagerState, uri, content)
            IN  /\ documents' = [documents EXCEPT ![uri] = <<content>>]
                /\ managerProjects' = m.projects
                /\ managerFileToProject' = m.fileToProject
                /\ lastStep' = [handler |-> "onDocumentChange", uri |-> uri,
                                content |-> content]
        /\ UNCHANGED <<formatterVars, serviceVars>>

\* The client closes a document that is open
OnDocumentClose ==
    \E uri \in DocumentUris :
        /\ documents[uri] # <<>>
        /\ LET m == onDocumentClose(ManagerState, uri)
           IN  /\ documents' = [documents EXCEPT ![uri] = <<>>]
               /\ managerProjects' = m.projects
               /\ managerFileToProject' = m.fileToProject
               /\ lastStep' = [handler |-> "onDocumentClose", uri |-> uri,
                               content |-> documents[uri][1]]
        /\ UNCHANGED <<formatterVars, serviceVars>>

NextManager == OnDocumentOpen \/ OnDocumentChange \/ OnDocumentClose

-----------------------------------------------------------------------------

(* ProjectService *)

\* api.ts lines 46-49
normalizeFsPath(fsPath0) ==
    IF platform = "win32" THEN toLowerCase(normalize(fsPath0))
    ELSE normalize(fsPath0)

\* The state of a ProjectService as a value; fired is the sequence of the
\* payloads the step has fired on onDidChangeActiveContext
ServiceState ==
    [projects |-> serviceProjects, fileToProject |-> serviceFileToProject,
     activeProjectFile |-> activeProjectFile,
     activeTargetName |-> activeTargetName, fired |-> <<>>]

\* lines 119-124
getActiveContextPayload(s) ==
    [projectFile |-> s.activeProjectFile, targetName |-> s.activeTargetName]

\* lines 331-333
emitActiveContextChanged(s) ==
    [s EXCEPT !.fired = Append(@, getActiveContextPayload(s))]

\* pickTarget of @caldymos/pb-project-core, imported at lines 34-39: taken to
\* be the default target as selectDefaultTarget of the shared parser chooses it
\* (pbp-parser.ts lines 96-101)
pickTarget(project) == selectDefaultTarget(project)

\* lines 229-237: <<>> for undefined
getActiveTarget(s, project) ==
    LET byName == IF ~Truthy(s.activeTargetName) THEN <<>>
                  ELSE SelectSeq(project.targets,
                           LAMBDA t : t.name = s.activeTargetName[1])
        t == pickTarget(project)
    IN  IF byName # <<>> THEN <<byName[1]>>
        ELSE IF t # <<>> THEN t
        ELSE IF project.targets # <<>> THEN <<project.targets[1]>>
        ELSE <<>>

TargetNameOf(t) == IF t = <<>> THEN <<>> ELSE <<t[1].name>>

\* The entries one project adds (lines 241-245), in order
RECURSIVE SetFiles(_, _, _)
SetFiles(fileToProject, files, projKey) ==
    IF files = <<>> THEN fileToProject
    ELSE SetFiles(IF Head(files).fsPath = <<>> THEN fileToProject
                  ELSE MapSet(fileToProject,
                              normalizeFsPath(Head(files).fsPath), projKey),
                  Tail(files), projKey)

RECURSIVE RebuildFrom(_, _)
RebuildFrom(fileToProject, projects) ==
    IF projects = <<>> THEN fileToProject
    ELSE RebuildFrom(SetFiles(fileToProject, Head(projects).value.files,
                              normalizeFsPath(Head(projects).value.projectFile)),
                     Tail(projects))

\* lines 239-247
rebuildFileToProjectMap(s) ==
    [s EXCEPT !.fileToProject = RebuildFrom(s.fileToProject, s.projects)]

\* lines 129-130: projFile is what fileToProject.get returned
ProjectOf(s, projFile) ==
    IF projFile = <<>> THEN <<>> ELSE OrderedGet(s.projects, projFile[1])

\* lines 126-130: <<>> for undefined
getProjectForFile(s, path) ==
    ProjectOf(s, MapGet(s.fileToProject, normalizeFsPath(path)))

\* lines 220-226: proj is what projects.get(key) returned
SetActive(s, key, proj) ==
    IF proj = <<>> THEN s
    ELSE emitActiveContextChanged(
             [s EXCEPT !.activeProjectFile = <<key>>,
                       !.activeTargetName =
                           TargetNameOf(getActiveTarget(s, proj[1]))])

\* lines 219-226 for the key of line 218
SetActiveKey(s, key) == SetActive(s, key, OrderedGet(s.projects, key))

\* lines 217-227
setActiveProject(s, projectFile) ==
    SetActiveKey(s, normalizeFsPath(projectFile))

\* lines 264-266: proj is what getProjectForFile returned
SyncFromProject(s, proj) ==
    IF proj = <<>> THEN s ELSE setActiveProject(s, proj[1].projectFile)

\* lines 256-266, for an editor on the file path
SyncFromFile(s, path) ==
    IF endsWith(toLowerCase(path), Str(".pbp"))
    THEN setActiveProject(s, path)
    ELSE SyncFromProject(s, getProjectForFile(s, path))

\* lines 249-267: editor is <<>> when there is no active editor or when the
\* scheme of its document is not file
syncActiveContextFromEditor(s, editor) ==
    IF editor = <<>> THEN s ELSE SyncFromFile(s, editor[1])

\* lines 135-136 of refresh
RefreshClear(s) ==
    [s EXCEPT !.projects = <<>>, !.fileToProject = EmptyMap]

\* lines 140-142 of refresh: parsed is <<>> for null
RefreshStore(s, parsed) ==
    IF parsed = <<>> THEN s
    ELSE [s EXCEPT !.projects =
            OrderedSet(s.projects, normalizeFsPath(parsed[1].projectFile),
                       parsed[1])]

\* lines 148-151 of refresh
RefreshDrop(s) ==
    IF /\ s.activeProjectFile # <<>>
       /\ s.activeProjectFile[1] \notin KeySet(s.projects)
    THEN [s EXCEPT !.activeProjectFile = <<>>, !.activeTargetName = <<>>]
    ELSE s

\* lines 153-160 of refresh
RefreshFirst(s) ==
    IF s.activeProjectFile = <<>> /\ s.projects # <<>>
    THEN [s EXCEPT !.activeProjectFile = <<s.projects[1].key>>,
                   !.activeTargetName =
                       TargetNameOf(getActiveTarget(s, s.projects[1].value))]
    ELSE s

\* lines 145-163 of refresh
RefreshFinish(s) ==
    emitActiveContextChanged(
        RefreshFirst(RefreshDrop(rebuildFileToProjectMap(s))))

\* lines 294-299 of onPbpFileChanged
ChangedTarget(s, key, parsed) ==
    emitActiveContextChanged(
        IF s.activeProjectFile = <<key>>
        THEN [s EXCEPT !.activeTargetName =
                TargetNameOf(getActiveTarget(s, parsed[1]))]
        ELSE s)

\* lines 284-299 of onPbpFileChanged for the key of line 282, with a
\* failing parse dropping the cached project
ChangedDropsCache(s, key, parsed) ==
    IF parsed = <<>>
    THEN rebuildFileToProjectMap(
             [s EXCEPT !.projects = OrderedDelete(s.projects, key)])
    ELSE ChangedTarget(
             rebuildFileToProjectMap(
                 [s EXCEPT !.projects =
                     OrderedSet(s.projects, key, parsed[1])]),
             key, parsed)

\* lines 284-299 of onPbpFileChanged for the key of line 282
Changed(s, key, parsed) ==
    IF parsed = <<>> THEN rebuildFileToProjectMap(s)
    ELSE ChangedTarget(
             rebuildFileToProjectMap(
                 [s EXCEPT !.projects =
                     OrderedSet(s.projects, key, parsed[1])]),
             key, parsed)

\* The continuation of onPbpFileChanged that drops the cached project when
\* parsing fails
ChangedResumeDropsCache(s, path, parsed) ==
    ChangedDropsCache(s, normalizeFsPath(path), parsed)

\* lines 282-299 of onPbpFileChanged, after tryParseProject returned parsed
ChangedResume(s, path, parsed) == Changed(s, normalizeFsPath(path), parsed)

\* lines 307-313 of onPbpFileDeleted
DeletedActive(s, key) ==
    emitActiveContextChanged(
        IF s.activeProjectFile = <<key>>
        THEN [s EXCEPT !.activeProjectFile = <<>>, !.activeTargetName = <<>>]
        ELSE s)

\* lines 304-313 of onPbpFileDeleted for the key of line 303
Deleted(s, key) ==
    DeletedActive(
        rebuildFileToProjectMap(
            [s EXCEPT !.projects = OrderedDelete(s.projects, key)]),
        key)

\* lines 302-314
onPbpFileDeleted(s, path) == Deleted(s, normalizeFsPath(path))

\* lines 316-324: content is what readFile resolved with, <<>> when it threw,
\* and then the result is null
tryParseProject(content, path) ==
    IF content = <<>> THEN <<>>
    ELSE <<Parsed(content[1], path)>>

-----------------------------------------------------------------------------

(* The workspace and the calls of the ProjectService *)

\* The most calls of async methods that are in flight at one time
MaxTasks == 2

DiskTexts == {PbpOne, PbpTwo}

PbpPaths == {PathP, PathQ}

EditorPaths == {PathP, PathA}

\* A call in flight: pc names the promise it awaits, since the files among
\* those it may yet read whose deletion was handled after the call started.
\* The calls form a bag: two calls that are equal in all of this are two
\* calls.
Task(kind, at, path, rest, items) ==
    [kind |-> kind, pc |-> at, path |-> path, rest |-> rest,
     parsed |-> <<>>, items |-> items, since |-> {}]

\* The calls in flight
Calls == BagToSet(tasks)

\* The calls in flight after the call t has started, after the call t has
\* gone on as u, and after the call t has ended
Started(t) == tasks (+) SetToBag({t})

Moved(t, u) == (tasks (-) SetToBag({t})) (+) SetToBag({u})

Ended(t) == tasks (-) SetToBag({t})

\* A call whose awaited promise is settled when it starts to await it: after
\* `await this.refresh()` of line 100 when refresh has ended, and after
\* `await this.syncActiveContextFromEditor()` of line 101, which has no await
\* of a pending promise.  Its continuation is a job of the microtask queue;
\* the event loop hands no event of the host (the watcher, the editor, the
\* user, the file system) to the service before the queue is empty, but the
\* continuations of other calls, whose answers have arrived, may run first.
Queued == \E t \in Calls : t.pc \in {"afterRefresh", "afterSync"}

\* No .pbp file in the workspace
NoFiles == [p \in PbpPaths |-> <<>>]

\* The active editor: none, or an editor on one of the files
Editors == {<<>>} \cup {<<path>> : path \in EditorPaths}

ServiceIdle ==
    /\ disk = NoFiles
    /\ serviceProjects = <<>>
    /\ serviceFileToProject = EmptyMap
    /\ activeProjectFile = <<>>
    /\ activeTargetName = <<>>
    /\ activeTextEditor = <<>>
    /\ pbpWatcher = FALSE
    /\ tasks = EmptyBag
    /\ fired = <<>>

\* After the construction of the service (lines 72-84), with any files in
\* the workspace and any active editor
ServiceInit ==
    /\ disk \in [PbpPaths -> {<<>>} \cup {<<c>> : c \in DiskTexts}]
    /\ serviceProjects = <<>>
    /\ serviceFileToProject = EmptyMap
    /\ activeProjectFile = <<>>
    /\ activeTargetName = <<>>
    /\ activeTextEditor \in Editors
    /\ pbpWatcher = FALSE
    /\ tasks = EmptyBag
    /\ fired = <<>>

\* The fields of the service after a step that left it in s
Becomes(s) ==
    /\ serviceProjects' = s.projects
    /\ serviceFileToProject' = s.fileToProject
    /\ activeProjectFile' = s.activeProjectFile
    /\ activeTargetName' = s.activeTargetName
    /\ fired' = s.fired

\* A step of the service: the method, whether the step ends the call of the
\* method, the .pbp file it handled, whether that file was parsed, and
\* whether its deletion was handled after the call started
Step(handler, ends, path, parsed, stale) ==
    [handler |-> handler, ends |-> ends, path |-> path, parsed |-> parsed,
     stale |-> stale]

\* A step that starts a call or serves a read
Awaits == Step("none", FALSE, <<>>, FALSE, FALSE)

\* The sequences that list every element of a set once
Orders(S) ==
    {u \in [1..Cardinality(S) -> S] :
        \A a, b \in 1..Cardinality(S) : a # b => u[a] # u[b]}

\* initialize() is called, once: lines 99-100, up to the await of findFiles
\* in refresh (line 133)
Initialize ==
    /\ ~Queued
    /\ ~pbpWatcher
    /\ \A t \in Calls : t.kind # "initialize"
    /\ BagCardinality(tasks) < MaxTasks
    /\ tasks' = Started(Task("initialize", "findFiles", <<>>, <<>>, <<>>))
    /\ Becomes(ServiceState)
    /\ lastStep' = Awaits
    /\ UNCHANGED <<formatterVars, managerVars, disk, activeTextEditor,
                   pbpWatcher>>

\* refresh() is called: line 133, up to the await of findFiles
Refresh ==
    /\ ~Queued
    /\ BagCardinality(tasks) < MaxTasks
    /\ tasks' = Started(Task("refresh", "findFiles", <<>>, <<>>, <<>>))
    /\ Becomes(ServiceState)
    /\ lastStep' = Awaits
    /\ UNCHANGED <<formatterVars, managerVars, disk, activeTextEditor,
                   pbpWatcher>>

\* The files the call t has yet to store: the one it reads and the rest of
\* the list of refresh
Unread(path, rest) ==
    {normalizeFsPath(path)} \cup {normalizeFsPath(rest[n]) : n \in 1..Len(rest)}

\* The calls in flight after refresh has ended in the call t: a call of
\* refresh() has ended; a call of initialize() awaits the promise of refresh
\* (line 100), which is settled
RefreshEnded(t) ==
    IF t.kind = "initialize"
    THEN Moved(t, [t EXCEPT !.pc = "afterRefresh", !.path = <<>>,
                            !.parsed = <<>>, !.since = {}])
    ELSE Ended(t)

\* findFiles answers with the .pbp files on the disk, in some order; refresh
\* runs lines 135-139 up to the first readFile, or to its end (lines 145-163)
\* when no file was found
RefreshFound ==
    \E t \in Calls :
        /\ t.kind \in {"refresh", "initialize"} /\ t.pc = "findFiles"
        /\ \E pbpUris \in Orders({p \in PbpPaths : disk[p] # <<>>}) :
             IF pbpUris = <<>>
             THEN /\ Becomes(RefreshFinish(RefreshClear(ServiceState)))
                  /\ tasks' = RefreshEnded(t)
                  /\ lastStep' = Step("refresh", TRUE, <<>>, FALSE, FALSE)
             ELSE /\ Becomes(RefreshClear(ServiceState))
                  /\ tasks' = Moved(t, [t EXCEPT !.pc = "readFile",
                                                 !.path = Head(pbpUris),
                                                 !.rest = Tail(pbpUris),
                                                 !.since = @ \cap Unread(Head(pbpUris), Tail(pbpUris))])
                  /\ lastStep' = Awaits
        /\ UNCHANGED <<formatterVars, managerVars, disk, activeTextEditor,
                       pbpWatcher>>

\* The file system settles a readFile of tryParseProject (lines 318-320):
\* with the file as it is on the disk, or with an error, which a missing file
\* always gives and any other file may give (a locked or unreadable file)
ReadFile ==
    \E t \in Calls :
        /\ ~Queued
        /\ t.pc = "readFile"
        /\ \E read \in {disk[t.path], <<>>} :
              tasks' = Moved(t, [t EXCEPT !.pc = "resume",
                                          !.parsed = tryParseProject(read, t.path)])
        /\ Becomes(ServiceState)
        /\ lastStep' = Awaits
        /\ UNCHANGED <<formatterVars, managerVars, disk, activeTextEditor,
                       pbpWatcher>>

\* refresh goes on after tryParseProject: lines 140-142 and the next file, or
\* the end of refresh (lines 145-163) after the last one
RefreshResume ==
    \E t \in Calls :
        /\ t.kind \in {"refresh", "initialize"} /\ t.pc = "resume"
        /\ IF t.rest = <<>>
           THEN /\ Becomes(RefreshFinish(RefreshStore(ServiceState, t.parsed)))
                /\ tasks' = RefreshEnded(t)
           ELSE /\ Becomes(RefreshStore(ServiceState, t.parsed))
                /\ tasks' = Moved(t, [t EXCEPT !.pc = "readFile",
                                               !.path = Head(t.rest),
                                               !.rest = Tail(t.rest),
                                               !.parsed = <<>>,
                                               !.since = @ \cap Unread(Head(t.rest), Tail(t.rest))])
        /\ lastStep' = Step("refresh", t.rest = <<>>, t.path, t.parsed # <<>>,
                            normalizeFsPath(t.path) \in t.since)
        /\ UNCHANGED <<formatterVars, managerVars, disk, activeTextEditor,
                       pbpWatcher>>

\* initialize goes on after refresh: line 101.  syncActiveContextFromEditor
\* runs to its end (setActiveProject, lines 217-227, has no await), and
\* initialize awaits its promise
InitializeSync ==
    \E t \in Calls :
        /\ t.kind = "initialize" /\ t.pc = "afterRefresh"
        /\ Becomes(syncActiveContextFromEditor(ServiceState, activeTextEditor))
        /\ tasks' = Moved(t, [t EXCEPT !.pc = "afterSync"])
        /\ lastStep' = Step("initialize", FALSE, <<>>, FALSE, FALSE)
        /\ UNCHANGED <<formatterVars, managerVars, disk, activeTextEditor,
                       pbpWatcher>>

\* initialize goes on after syncActiveContextFromEditor: lines 102-104, with
\* installWatchers (lines 269-278)
InitializeInstall ==
    \E t \in Calls :
        /\ t.kind = "initialize" /\ t.pc = "afterSync"
        /\ pbpWatcher' = TRUE
        /\ Becomes(emitActiveContextChanged(ServiceState))
        /\ tasks' = Ended(t)
        /\ lastStep' = Step("initialize", TRUE, <<>>, FALSE, FALSE)
        /\ UNCHANGED <<formatterVars, managerVars, disk, activeTextEditor>>

\* A .pbp file is created or changed.  With the watcher installed (lines
\* 275-276) onPbpFileChanged is called: line 281, up to the await of
\* tryParseProject; without it no callback runs
PbpFileChanged ==
    \E path \in PbpPaths, content \in DiskTexts :
        /\ ~Queued
        /\ pbpWatcher => BagCardinality(tasks) < MaxTasks
        /\ disk[path] # <<content>>
        /\ disk' = [disk EXCEPT ![path] = <<content>>]
        /\ tasks' = IF pbpWatcher
                    THEN Started(Task("changed", "readFile", path, <<>>, <<>>))
                    ELSE tasks
        /\ Becomes(ServiceState)
        /\ lastStep' = Awaits
        /\ UNCHANGED <<formatterVars, managerVars, activeTextEditor,
                       pbpWatcher>>

\* onPbpFileChanged goes on after tryParseProject: lines 282-299
PbpFileChangedResume ==
    \E t \in Calls :
        /\ t.kind = "changed" /\ t.pc = "resume"
        /\ Becomes(ChangedResume(ServiceState, t.path, t.parsed))
        /\ tasks' = Ended(t)
        /\ lastStep' = Step("onPbpFileChanged", TRUE, t.path, t.parsed # <<>>,
                            normalizeFsPath(t.path) \in t.since)
        /\ UNCHANGED <<formatterVars, managerVars, disk, activeTextEditor,
                       pbpWatcher>>

\* The call t after the deletion of the file key was handled
SinceDeleted(t, key) ==
    IF t.pc = "findFiles" \/ (t.pc \in {"readFile", "resume"} /\ key \in Unread(t.path, t.rest))
    THEN [t EXCEPT !.since = @ \cup {key}]
    ELSE t

\* A .pbp file is deleted.  With the watcher installed (line 277)
\* onPbpFileDeleted is called; without it no callback runs
PbpFileDeleted ==
    \E path \in PbpPaths :
        /\ ~Queued
        /\ disk[path] # <<>>
        /\ disk' = [disk EXCEPT ![path] = <<>>]
        /\ IF pbpWatcher
           THEN /\ Becomes(onPbpFileDeleted(ServiceState, path))
                /\ tasks' = BagOfAll(LAMBDA t : SinceDeleted(t, normalizeFsPath(path)),
                                     tasks)
                /\ lastStep' = Step("onPbpFileDeleted", TRUE, path, FALSE,
                                    FALSE)
           ELSE /\ Becomes(ServiceState)
                /\ tasks' = tasks
                /\ lastStep' = Awaits
        /\ UNCHANGED <<formatterVars, managerVars, activeTextEditor,
                       pbpWatcher>>

\* The items of lines 167-171, by their projectFile
ProjectItems(projects) ==
    [n \in 1..Len(projects) |-> normalizeFsPath(projects[n].value.projectFile)]

\* pickActiveProject() is called with projects in the map: lines 167-181, up
\* to the await of the pick
PickActiveProject ==
    /\ ~Queued
    /\ BagCardinality(tasks) < MaxTasks
    /\ serviceProjects # <<>>
    /\ tasks' = Started(Task("pickProject", "showQuickPick", <<>>, <<>>,
                             ProjectItems(serviceProjects)))
    /\ Becomes(ServiceState)
    /\ lastStep' = Awaits
    /\ UNCHANGED <<formatterVars, managerVars, disk, activeTextEditor,
                   pbpWatcher>>

\* The user picks one of the items of the call or dismisses the pick: lines
\* 182-184 with setActiveProject (lines 217-227), which has no await
PickActiveProjectResume ==
    \E t \in Calls :
        /\ t.kind = "pickProject"
        /\ \E picked \in {<<>>} \cup {<<t.items[n]>> : n \in 1..Len(t.items)} :
              Becomes(IF picked = <<>> THEN ServiceState
                      ELSE setActiveProject(ServiceState, picked[1]))
        /\ tasks' = Ended(t)
        /\ lastStep' = Step("pickActiveProject", TRUE, <<>>, FALSE, FALSE)
        /\ UNCHANGED <<formatterVars, managerVars, disk, activeTextEditor,
                       pbpWatcher>>

\* pickActiveTarget() is called: lines 188-209, up to the await of the pick
PickActiveTarget ==
    /\ ~Queued
    /\ BagCardinality(tasks) < MaxTasks
    /\ activeProjectFile # <<>>
    /\ LET proj == OrderedGet(serviceProjects, activeProjectFile[1])
       IN  /\ proj # <<>>
           /\ proj[1].targets # <<>>
           /\ tasks' = Started(
                  Task("pickTarget", "showQuickPick", <<>>, <<>>,
                       [n \in 1..Len(proj[1].targets) |-> proj[1].targets[n].name]))
    /\ Becomes(ServiceState)
    /\ lastStep' = Awaits
    /\ UNCHANGED <<formatterVars, managerVars, disk, activeTextEditor,
                   pbpWatcher>>

\* The user picks a target or dismisses the pick: lines 210-214
PickActiveTargetResume ==
    \E t \in Calls :
        /\ t.kind = "pickTarget"
        /\ \E picked \in {<<>>} \cup {<<t.items[n]>> : n \in 1..Len(t.items)} :
              Becomes(IF picked = <<>> THEN ServiceState
                      ELSE emitActiveContextChanged(
                               [ServiceState EXCEPT !.activeTargetName = picked]))
        /\ tasks' = Ended(t)
        /\ lastStep' = Step("pickActiveTarget", TRUE, <<>>, FALSE, FALSE)
        /\ UNCHANGED <<formatterVars, managerVars, disk, activeTextEditor,
                       pbpWatcher>>

\* The active editor changes, to an editor on a file or to none: the
\* listener of lines 79-83 calls syncActiveContextFromEditor (lines 249-267)
ActiveEditorChanged ==
    \E editor \in Editors :
        /\ ~Queued
        /\ activeTextEditor' = editor
        /\ Becomes(syncActiveContextFromEditor(ServiceState, editor))
        /\ lastStep' = Step("syncActiveContextFromEditor", TRUE, <<>>, FALSE,
                            FALSE)
        /\ UNCHANGED <<formatterVars, managerVars, disk, pbpWatcher, tasks>>

\* The calls of the API, the editor and the deletion of files, in a
\* workspace whose .pbp files are not written
NextService ==
    \/ Initialize
    \/ Refresh
    \/ RefreshFound
    \/ ReadFile
    \/ RefreshResume
    \/ InitializeSync
    \/ InitializeInstall
    \/ PbpFileDeleted
    \/ PickActiveProject
    \/ PickActiveProjectResume
    \/ PickActiveTarget
    \/ PickActiveTargetResume
    \/ ActiveEditorChanged

InitManager == FormatterIdle /\ ManagerInit /\ ServiceIdle /\ lastStep = NoStep

SpecManager == InitManager /\ [][NextManager]_vars

\* Both .pbp files in the workspace
BothFiles ==
    [p \in PbpPaths |-> IF p = PathP THEN <<PbpOne>> ELSE <<PbpTwo>>]

InitService ==
    /\ FormatterIdle /\ ManagerInit /\ ServiceInit /\ lastStep = NoStep
    /\ disk = BothFiles

SpecService == InitService /\ [][NextService]_vars

\* initialize(), the file watcher and the editor: the events of .pbp files
\* that are written and deleted and of the active editor, without calls of
\* refresh() and without the picks
NextWatcher ==
    \/ Initialize
    \/ RefreshFound
    \/ ReadFile
    \/ RefreshResume
    \/ InitializeSync
    \/ InitializeInstall
    \/ PbpFileChanged
    \/ PbpFileChangedResume
    \/ PbpFileDeleted
    \/ ActiveEditorChanged

InitWatcher ==
    FormatterIdle /\ ManagerInit /\ ServiceInit /\ lastStep = NoStep

SpecWatcher == InitWatcher /\ [][NextWatcher]_vars

-----------------------------------------------------------------------------

(* The handlers *)

TypeOK ==
    /\ pc \in {"idle", "formatting", "done", "threw"}
    /\ i \in 0..Len(lines)
    /\ Len(out) = i
    /\ Len(edits) <= 1

\* A server that holds one of the documents docs, given by their lines
InitTexts(texts) ==
    /\ text \in texts
    /\ pc = "idle"
    /\ request = [kind |-> "none", range |-> <<>>, options |-> <<>>]
    /\ options = DEFAULT_OPTIONS
    /\ replaceRange = fullRange(text)
    /\ initialState = <<>>
    /\ lines = <<>>
    /\ i = 0
    /\ out = <<>>
    /\ indentLevel = 0
    /\ inSelect = FALSE
    /\ selectBaseIndent = 0
    /\ caseActive = FALSE
    /\ edits = <<>>
    /\ ManagerInit /\ ServiceIdle /\ lastStep = NoStep

InitDocs(docs) == InitTexts({join(d, LF) : d \in docs})

InitWith(pool) == InitDocs(Docs(pool))

Init == InitWith(Pool)

CurrentState ==
    [indentLevel |-> indentLevel, inSelect |-> inSelect,
     selectBaseIndent |-> selectBaseIndent, caseActive |-> caseActive]

\* EnterFormatter that keeps the state the previous call ended in when no
\* initial state is passed
EnterFormatterStale(t, initial) ==
    LET st == Coalesce(initial, CurrentState)
    IN  /\ lines' = split(t, LF)
        /\ i' = 0
        /\ out' = <<>>
        /\ indentLevel' = st.indentLevel
        /\ inSelect' = st.inSelect
        /\ selectBaseIndent' = st.selectBaseIndent
        /\ caseActive' = st.caseActive

\* formatPureBasicCode lines 96-103: split the text, take the initial state
EnterFormatter(t, initial) ==
    LET st == Coalesce(initial, InitialFormatterState)
    IN  /\ lines' = split(t, LF)
        /\ i' = 0
        /\ out' = <<>>
        /\ indentLevel' = st.indentLevel
        /\ inSelect' = st.inSelect
        /\ selectBaseIndent' = st.selectBaseIndent
        /\ caseActive' = st.caseActive

\* handleDocumentFormatting lines 47-54, up to the formatter's loop
HandleDocumentFormatting ==
    /\ pc = "idle"
    /\ \E o \in RequestOptions :
        /\ request' = [kind |-> "full", range |-> <<>>, options |-> o]
        /\ options' = mergeOptions(o)
    /\ replaceRange' = fullRange(text)
    /\ initialState' = <<>>
    /\ EnterFormatter(text, <<>>)
    /\ edits' = <<>>
    /\ pc' = "formatting"
    /\ UNCHANGED text
    /\ UNCHANGED <<managerVars, serviceVars, lastStep>>

\* handleDocumentRangeFormatting lines 70-83, up to the formatter's loop
HandleDocumentRangeFormatting ==
    /\ pc = "idle"
    /\ \E o \in RequestOptions, s \in 0..(lineCount(text) - 1) :
        \E e \in s..(lineCount(text) - 1) :
            \* the requested range starts and ends inside its lines
            LET range == RangeOf(Position(s, 1), Position(e, 1))
                expanded == expandToFullLines(text, range)
                linesBefore == slice0(split(text, LF),
                                      expanded.start.line)
                st == computeInitialFormatterState(linesBefore)
            IN  /\ request' = [kind |-> "range", range |-> <<range>>,
                               options |-> o]
                /\ options' = mergeOptions(o)
                /\ replaceRange' = expanded
                /\ initialState' = <<st>>
                /\ EnterFormatter(getText(text, expanded), <<st>>)
    /\ edits' = <<>>
    /\ pc' = "formatting"
    /\ UNCHANGED text
    /\ UNCHANGED <<managerVars, serviceVars, lastStep>>

\* formatPureBasicCode lines 135-219: one iteration of the loop
FormatNextLine ==
    /\ pc = "formatting"
    /\ i < Len(lines)
    /\ LET r == FormatLine(CurrentState, lines[i + 1], options)
       IN  /\ indentLevel' = r.state.indentLevel
           /\ inSelect' = r.state.inSelect
           /\ selectBaseIndent' = r.state.selectBaseIndent
           /\ caseActive' = r.state.caseActive
           /\ out' = IF r.threw THEN out ELSE Append(out, r.line)
           /\ i' = IF r.threw THEN i ELSE i + 1
           /\ pc' = IF r.threw THEN "threw" ELSE pc
    /\ UNCHANGED <<text, request, options, replaceRange, initialState, lines,
                   edits>>
    /\ UNCHANGED <<managerVars, serviceVars, lastStep>>

\* The return of handleDocumentFormatting without the no-change test
ReturnDocumentFormattingAlways ==
    /\ pc = "formatting"
    /\ i = Len(lines)
    /\ request.kind = "full"
    /\ edits' = <<TextEditReplace(replaceRange, join(out, LF))>>
    /\ pc' = "done"
    /\ UNCHANGED <<text, request, options, replaceRange, initialState, lines,
                   i, out, indentLevel, inSelect, selectBaseIndent, caseActive>>
    /\ UNCHANGED <<managerVars, serviceVars, lastStep>>

\* formatPureBasicCode line 221 and handleDocumentFormatting lines 56-60
ReturnDocumentFormatting ==
    /\ pc = "formatting"
    /\ i = Len(lines)
    /\ request.kind = "full"
    /\ LET formattedText == join(out, LF)
       IN  edits' = IF formattedText = text THEN <<>>
                    ELSE <<TextEditReplace(replaceRange, formattedText)>>
    /\ pc' = "done"
    /\ UNCHANGED <<text, request, options, replaceRange, initialState, lines,
                   i, out, indentLevel, inSelect, selectBaseIndent, caseActive>>
    /\ UNCHANGED <<managerVars, serviceVars, lastStep>>

\* formatPureBasicCode line 221 and handleDocumentRangeFormatting lines 85-89
ReturnRangeFormatting ==
    /\ pc = "formatting"
    /\ i = Len(lines)
    /\ request.kind = "range"
    /\ LET formattedText == join(out, LF)
           expandedText == getText(text, replaceRange)
       IN  edits' = IF formattedText = expandedText THEN <<>>
                    ELSE <<TextEditReplace(replaceRange, formattedText)>>
    /\ pc' = "done"
    /\ UNCHANGED <<text, request, options, replaceRange, initialState, lines,
                   i, out, indentLevel, inSelect, selectBaseIndent, caseActive>>
    /\ UNCHANGED <<managerVars, serviceVars, lastStep>>

Next ==
    \/ HandleDocumentFormatting
    \/ HandleDocumentRangeFormatting
    \/ FormatNextLine
    \/ ReturnDocumentFormatting
    \/ ReturnRangeFormatting

Spec == Init /\ [][Next]_vars

InitText == InitWith(TextPool)

SpecText == InitText /\ [][Next]_vars

InitParity == InitWith(ParityPool)

SpecParity == InitParity /\ [][Next]_vars

\* Lines of texts with Select constructs and blocks inside and around them
SelectPool == {LSelect, LCase, LEndSelect, LIf, LEndIf}

InitSelect == InitWith(SelectPool)

SpecSelect == InitSelect /\ [][Next]_vars

\* Lines of texts with blank lines, comments and plain statements inside and
\* outside blocks and Select constructs
PlainPool == {LSelect, LCase, LIf, LPlain, LBlank, LComment}

InitPlain == InitWith(PlainPool)

SpecPlain == InitPlain /\ [][Next]_vars

\* Lines of texts with single-line blocks
InlinePool == {LIf, LEndIf, LInlineIf, LMixed, LIfNext, LMacroLine}

InitInline == InitWith(InlinePool)

SpecInline == InitInline /\ [][Next]_vars

\* Lines with keywords and comment markers inside strings and comments
SanitizerPool ==
    {LIfComment, LDebugString, LIfSemi, LIfQuoted, LEndIf}

InitSanitizer == InitWith(SanitizerPool)

SpecSanitizer == InitSanitizer /\ [][Next]_vars

\* The constructs around a body b: an If, an If with b before its Else and a
\* plain statement after it, a Select with one Case
Wrap(b) ==
    {<<LIf>> \o b \o <<LEndIf0>>,
     <<LIf>> \o b \o <<LElse, LFoo, LEndIf0>>,
     <<LSelect, LCase1>> \o b \o <<LEndSelect>>}

\* The well-nested documents of depth d or less
RECURSIVE WellNested(_)
WellNested(d) ==
    IF d = 0 THEN {<<LFoo>>}
    ELSE WellNested(d - 1) \cup UNION {Wrap(b) : b \in WellNested(d - 1)}

InitNested == InitDocs(WellNested(MaxDepth))

SpecNested == InitNested /\ [][Next]_vars

\* Texts whose lines end with \n, \r\n or \r
LineEndsPool == {LIf, LFoo}

LineEnds == {<<LF>>, <<Ord["\r"], LF>>, <<Ord["\r"]>>}

InitLineEnds ==
    InitTexts({flat([k \in 1..Len(d) |->
                        IF k = 1 THEN d[k] ELSE e[k - 1] \o d[k]]) :
                  d \in Docs(LineEndsPool),
                  e \in [1..(MaxLines - 1) -> LineEnds]})

SpecLineEnds == InitLineEnds /\ [][Next]_vars

\* Lines that follow a Select and its Case: stray closers and statements
AnchorPool == {LEndIf0, LFoo}

\* A Select, at level 0 or inside an If, with or without a Case, followed by
\* stray closers and statements
InitAnchor ==
    InitDocs({prefix \o <<LSelect>> \o label \o tail :
                 prefix \in {<<>>, <<LIf>>},
                 label \in {<<>>, <<LCase1>>},
                 tail \in UNION {[1..n -> AnchorPool] : n \in 0..MaxLines}})

SpecAnchor == InitAnchor /\ [][Next]_vars

\* Lines of texts with blocks of two families and no Select construct
BlockPool == {LIf, LEndIf, LMacro, LEndMacro, LFoo}

InitBlocks == InitWith(BlockPool)

SpecBlocks == InitBlocks /\ [][Next]_vars

\* A text that ends with Scenario C
InitScenarioC ==
    InitDocs({prefix \o ScenarioC :
                 prefix \in UNION {[1..n -> PrefixPool] : n \in 0..MaxPrefix}})

SpecScenarioC == InitScenarioC /\ [][Next]_vars

\* A text that ends with a simple block
InitScenarioB ==
    InitDocs({prefix \o b :
                 prefix \in UNION {[1..n -> PrefixPool] : n \in 0..MaxPrefix},
                 b \in SimpleBlocks})

SpecScenarioB == InitScenarioB /\ [][Next]_vars

\* Lines of the documents that successive requests are served for
CallsPool == {LSelect, LCase1}

InitCalls == InitWith(CallsPool)

\* A handler has returned (or raised) and the server waits for the next
\* request; the document may have been edited meanwhile.  The locals of the
\* call that ended are dead and keep their last values.
Respond ==
    /\ pc \in {"done", "threw"}
    /\ pc' = "idle"
    /\ text' \in {join(d, LF) : d \in Docs(CallsPool)}
    /\ UNCHANGED <<request, options, replaceRange, initialState, lines, i, out,
                   indentLevel, inSelect, selectBaseIndent, caseActive, edits>>
    /\ UNCHANGED <<managerVars, serviceVars, lastStep>>

NextCalls == Next \/ Respond

\* A server that answers one formatting request after another
SpecCalls == InitCalls /\ [][NextCalls]_vars

-----------------------------------------------------------------------------
(* Notions the properties are stated with *)

Code(raw) == trim(stripStringsAndComments(raw))

\* The lines of the document, text.split('\n')
TextLines == split(text, LF)

\* The state in which the running call processes its k-th line
StateBefore(k) ==
    FormatLines(SubSeq(lines, 1, k - 1), 1,
                Coalesce(initialState, InitialFormatterState), options,
                <<>>).state

RECURSIVE LeadingWhiteSpace(_)
LeadingWhiteSpace(line) ==
    IF line # <<>> /\ Head(line) \in WhiteSpace
    THEN 1 + LeadingWhiteSpace(Tail(line))
    ELSE 0

IndentSize(opts) == IF opts.insertSpaces THEN opts.tabSize ELSE 1

\* The indent level an output line was emitted at
EmittedLevel(line, opts) == LeadingWhiteSpace(line) \div IndentSize(opts)

\* line is raw's content at the given level
IsAtLevel(line, raw, level, opts) ==
    line = createIndent(level, opts).value \o trim(raw)

IsBlank(raw) == trim(raw) = <<>>

IsComment(raw) == ~IsBlank(raw) /\ Head(trim(raw)) = Ord[";"]

\* A closing line that is not an inline block
IsCloser(raw) ==
    /\ ~IsBlank(raw) /\ ~IsComment(raw)
    /\ ~hasInlineNetZero(Code(raw))
    /\ (isClosing(Code(raw)) \/ isEndSelect(Code(raw)))

Running == pc \in {"formatting", "done"}

-----------------------------------------------------------------------------
(* C1 *)

\* C1: Non-negative indentation.  After every processed line indentLevel >= 0
\* and selectBaseIndent >= 0, every emitted non-blank line is the line's
\* content at a level >= 0, and a closer with nothing open (level 0, no
\* Select open) leaves the level at 0 and is emitted without indent.
C1_NonNegativeIndentation ==
    /\ indentLevel >= 0
    /\ selectBaseIndent >= 0
    /\ \A k \in 1..Len(out) :
        /\ EmittedLevel(out[k], options) >= 0
        /\ IsAtLevel(out[k], lines[k], EmittedLevel(out[k], options), options)
    /\ (/\ Running /\ i >= 1 /\ IsCloser(lines[i])
        /\ StateBefore(i).indentLevel = 0 /\ ~StateBefore(i).inSelect)
       => (indentLevel = 0 /\ out[i] = trim(lines[i]))

\* Two unmatched closers in a row have been processed at level 0
C1_Witness ==
    /\ pc = "formatting" /\ i >= 2 /\ request.kind = "full"
    /\ IsCloser(lines[i]) /\ IsCloser(lines[i - 1])
    /\ StateBefore(i).indentLevel = 0 /\ ~StateBefore(i).inSelect
    /\ indentLevel = 0

-----------------------------------------------------------------------------
(* C5 *)

\* C5: Content preservation.  The formatter emits one output line per
\* processed input line, in order, and as many as there are input lines when
\* it returns; every output line is a run of white space followed by the
\* trimmed content of its input line, and a blank line becomes empty.
C5_ContentPreservation ==
    /\ Running => Len(out) = i /\ i <= Len(lines)
    /\ pc = "done" => Len(out) = Len(lines)
    /\ Running =>
         \A k \in 1..Len(out) :
            /\ trim(out[k]) = trim(lines[k])
            /\ SubSeq(out[k], LeadingWhiteSpace(out[k]) + 1, Len(out[k]))
                   = trim(lines[k])
            /\ IsBlank(lines[k]) => out[k] = <<>>
    /\ (pc = "done" /\ edits # <<>>) =>
         LET newLines == split(edits[1].newText, LF)
         IN  /\ Len(newLines) = Len(lines)
             /\ \A k \in 1..Len(lines) : trim(newLines[k]) = trim(lines[k])

\* A whole text with a blank line, a comment and a string has been formatted
C5_Witness ==
    /\ pc = "done" /\ request.kind = "full" /\ edits # <<>>
    /\ \E k \in 1..Len(lines) : IsBlank(lines[k]) /\ lines[k] # <<>>
    /\ \E k \in 1..Len(lines) : IsComment(lines[k])
    /\ \E k \in 1..Len(lines) : lines[k] = LString

-----------------------------------------------------------------------------
(* C6 *)

\* C6: Idempotence.  Formatting the result of whole-document formatting with
\* the same options yields that result again, and the result is the same as
\* that of formatting the text with every line trimmed first.
C6_Idempotence ==
    (pc = "done" /\ request.kind = "full") =>
        LET result == join(out, LF)
            again == formatPureBasicCode(result, options, <<>>)
            bare  == formatPureBasicCode(
                         join([k \in 1..Len(lines) |-> trim(lines[k])], LF),
                         options, <<>>)
        IN  /\ ~again.threw /\ again.text = result
            /\ ~bare.threw /\ bare.text = result

\* A text whose lines carry leading white space was re-indented
C6_Witness ==
    /\ pc = "done" /\ request.kind = "full" /\ edits # <<>>
    /\ \E k \in 1..Len(lines) :
          /\ LeadingWhiteSpace(lines[k]) > 0
          /\ EmittedLevel(out[k], options) > 0
          /\ out[k] # lines[k]

-----------------------------------------------------------------------------
(* C7 *)

\* C7: Totality.  No request raises: the formatter never reaches the state
\* in which building an indent failed, every line of the text handed to it
\* can be processed from every state, and a request that returned has
\* processed all its lines; in particular for unbalanced blocks, EndSelect
\* with no Select open, Case outside Select and closers at level 0.
C7_Totality ==
    /\ pc # "threw"
    /\ (pc = "formatting" /\ i < Len(lines)) =>
          ~FormatLine(CurrentState, lines[i + 1], options).threw
    /\ pc = "idle" =>
          \A o \in RequestOptions :
             ~formatPureBasicCode(text, mergeOptions(o), <<>>).threw
    /\ pc = "done" => i = Len(lines) /\ Len(edits) <= 1

\* A request over EndSelect, Case and a closer with nothing open returned
C7_Witness ==
    /\ pc = "done" /\ Len(lines) >= 3 /\ request.kind = "full"
    /\ isEndSelect(Code(lines[1]))
    /\ isCase(Code(lines[2]))
    /\ isClosing(Code(lines[3]))
    /\ indentLevel = 0

-----------------------------------------------------------------------------
(* C8 *)

\* The text of line l of a document without its line break
LineText(content, l) ==
    LET lineOffsets == getLineOffsets(content)
        from == lineOffsets[l + 1]
        to == IF l + 1 < Len(lineOffsets) THEN lineOffsets[l + 2]
              ELSE Len(content)
    IN  SubSeq(content, from + 1, ensureBeforeEOL(content, to, from))

\* The end of line l
EndOfLine(content, l) == Position(l, Len(LineText(content, l)))

\* The text of the lines a..b of a document, with the line breaks between
\* them
LinesText(content, a, b) ==
    IF a > b THEN <<>>
    ELSE getText(content, RangeOf(Position(a, 0), EndOfLine(content, b)))

\* The text after a client applied the returned edits: a position behind
\* the end of its line is the end of that line
ApplyEdits(content, es) ==
    IF es = <<>> THEN content
    ELSE LET a == offsetAt(content, es[1].range.start)
             b == offsetAt(content, es[1].range.end)
         IN  SubSeq(content, 1, a) \o es[1].newText
                \o SubSeq(content, b + 1, Len(content))

\* C8: Range formatting touches only the expanded range.  The range is the
\* requested range widened to whole lines, the initial state is the one
\* reconstructed from exactly the lines of the document before the first line
\* of the range, the text formatted is exactly that of the lines of the
\* range, and the result is no edit or one replacement of exactly that range,
\* which leaves every line outside the range as it was.
C8_RangeOnly ==
    (Running /\ request.kind = "range") =>
        LET rq == request.range[1]
            s  == rq.start.line
            e  == rq.end.line
        IN  /\ replaceRange.start = Position(s, 0)
            /\ replaceRange.end.line = e
            /\ replaceRange.end.character >= Len(LineText(text, e))
            /\ join(lines, LF) = LinesText(text, s, e)
            /\ initialState
                 = <<computeInitialFormatterState(
                        [l \in 1..s |-> LineText(text, l - 1)])>>
            /\ pc = "done" =>
                 LET after == ApplyEdits(text, edits)
                 IN  /\ edits = <<>>
                        \/ (Len(edits) = 1 /\ edits[1].range = replaceRange)
                     /\ lineCount(after) = lineCount(text)
                     /\ \A l \in 0..(lineCount(text) - 1) :
                           (l < s \/ l > e)
                              => LineText(after, l) = LineText(text, l)

-----------------------------------------------------------------------------
(* C9 *)

\* C9: No-change signal.  Whole-document formatting returns no edit exactly
\* when the computed text equals the text, and otherwise exactly one edit
\* replacing the whole document (line 0, character 0 to the end of the last
\* line) by the computed text; range formatting does the same with the text
\* of the expanded range.
C9_NoChangeSignal ==
    pc = "done" =>
        IF request.kind = "full"
        THEN LET computed == formatPureBasicCode(text, options, <<>>).text
             IN  /\ (edits = <<>>) <=> (computed = text)
                 /\ computed # text =>
                      edits = <<[range |-> RangeOf(Position(0, 0),
                                    EndOfLine(text, lineCount(text) - 1)),
                                 newText |-> computed]>>
        ELSE LET s == request.range[1].start.line
                 e == request.range[1].end.line
                 rangeText == LinesText(text, s, e)
                 computed == formatPureBasicCode(rangeText, options,
                                                 initialState).text
             IN  /\ (edits = <<>>) <=> (computed = rangeText)
                 /\ computed # rangeText =>
                      /\ Len(edits) = 1
                      /\ edits[1].newText = computed
                      /\ edits[1].range.start = Position(s, 0)
                      /\ edits[1].range.end.line = e

\* Whole-document formatting of a text with an indented body changed nothing
C9_Witness ==
    /\ pc = "done" /\ request.kind = "full" /\ edits = <<>>
    /\ Len(lines) = 3
    /\ EmittedLevel(out[2], options) = 1
    /\ ~IsBlank(lines[2])

-----------------------------------------------------------------------------
(* C2, C3, C4 *)

\* C3: State-machine parity.  After every prefix of the lines of a text
\* the whole-document formatter is in exactly the state that
\* computeInitialFormatterState returns for that prefix.
C3_StateMachineParity ==
    (Running /\ request.kind = "full") =>
        CurrentState = computeInitialFormatterState(SubSeq(lines, 1, i))

\* C2: Range/full equivalence.  For a text that whole-document formatting
\* leaves as it is, range formatting of the lines s..e computes the lines
\* s..e of the whole-document result.
C2_RangeFullEquivalence ==
    (pc = "done" /\ request.kind = "range") =>
        LET full == formatPureBasicCode(text, options, <<>>)
            s == request.range[1].start.line
            e == request.range[1].end.line
        IN  full.text = text =>
              /\ out = SubSeq(full.out, s + 1, e + 1)
              /\ ApplyEdits(text, edits) = full.text

\* A line with an opener and the matching closer of one block family
IsNetZero(raw) ==
    /\ ~IsBlank(raw) /\ ~IsComment(raw)
    /\ hasInlineNetZero(Code(raw))

\* The formatter's half of C4: a net-zero line is emitted at the current
\* level and leaves the formatter's state as it was.
FormatterNetZero ==
    (Running /\ i >= 1 /\ IsNetZero(lines[i])) =>
        /\ CurrentState = StateBefore(i)
        /\ IsAtLevel(out[i], lines[i], StateBefore(i).indentLevel, options)

\* The state reconstructor's half of C4: a net-zero line among the lines
\* before a range leaves the reconstructed state as it was.
ReconstructorNetZero ==
    (Running /\ request.kind = "range") =>
        \A k \in 1..request.range[1].start.line :
            IsNetZero(TextLines[k]) =>
                computeInitialFormatterState(SubSeq(TextLines, 1, k))
                    = computeInitialFormatterState(SubSeq(TextLines, 1, k - 1))

\* C4: Net-zero invariance.  A line with an opener and the matching closer
\* of the same block family, whatever it starts with, is emitted at the
\* current indentLevel and changes no field of the state, in the formatter
\* and in the state reconstructor, so that the lines after it are indented
\* as if it had been a plain statement.
C4_NetZeroInvariance == FormatterNetZero /\ ReconstructorNetZero

-----------------------------------------------------------------------------
(* C10 *)

\* C10: Scenario C.  When the lines a request formats end with
\* Select / Case / statement / Default / statement / EndSelect and the
\* formatter is at level L before the Select, then Select and EndSelect are
\* emitted at L, the labels at L + 1, the statements at L + 2, and afterwards
\* indentLevel = L and inSelect = FALSE; L is 0 when the text is the scenario.
C10_ScenarioC ==
    (pc = "done" /\ Len(lines) >= 6
        /\ SubSeq(lines, Len(lines) - 5, Len(lines)) = ScenarioC) =>
        LET p == Len(lines) - 6
            L == StateBefore(p + 1).indentLevel
            at(k, level) == IsAtLevel(out[p + k], lines[p + k], level, options)
        IN  /\ at(1, L) /\ at(6, L)
            /\ at(2, L + 1) /\ at(4, L + 1)
            /\ at(3, L + 2) /\ at(5, L + 2)
            /\ indentLevel = L
            /\ inSelect = FALSE
            /\ (request.kind = "full" /\ Len(lines) = 6) => L = 0

\* Scenario C was range-formatted below two open blocks
C10_Witness ==
    /\ pc = "done" /\ request.kind = "range" /\ lines = ScenarioC
    /\ initialState[1].indentLevel = 2
    /\ indentLevel = 2
    /\ IsAtLevel(out[3], LFoo, 4, options)

-----------------------------------------------------------------------------
(* C11 *)

\* The lines the running call formats end with the block b
EndsWith(b) ==
    /\ Len(lines) >= Len(b)
    /\ SubSeq(lines, Len(lines) - Len(b) + 1, Len(lines)) = b

\* C11: Scenario B.  When the lines a request formats end with a simple block
\* (opener, plain statements, matching closer) and the formatter is at level L
\* before the opener, then the opener and the closer are emitted at L, every
\* body statement at L + 1, and indentLevel is L afterwards; whole-document
\* formatting of If x / y() / EndIf with the default options yields If x,
\* four spaces + y(), EndIf.
C11_ScenarioB ==
    /\ \A b \in SimpleBlocks :
        (pc = "done" /\ EndsWith(b)) =>
            LET p == Len(lines) - Len(b)
                L == StateBefore(p + 1).indentLevel
                at(k, level) ==
                    IsAtLevel(out[p + k], lines[p + k], level, options)
            IN  /\ at(1, L) /\ at(Len(b), L)
                /\ \A k \in 2..(Len(b) - 1) : at(k, L + 1)
                /\ indentLevel = L
    /\ (pc = "done" /\ request.kind = "full" /\ lines = ScenarioB
            /\ request.options = [tabSize |-> <<>>, insertSpaces |-> <<>>]) =>
        out = <<LIf, Str("    ") \o LY, LEndIf0>>

\* A simple block was range-formatted below an open block, and Scenario B's
\* body was indented by four spaces under the default options
C11_Witness ==
    /\ pc = "done" /\ request.kind = "range" /\ lines = ScenarioB
    /\ request.options = [tabSize |-> <<>>, insertSpaces |-> <<>>]
    /\ initialState[1].indentLevel = 1
    /\ out[2] = Str("        ") \o LY
    /\ indentLevel = 1

-----------------------------------------------------------------------------
(* C12 *)

\* C12 as stated: whole-document formatting of Scenario A (If x, y() indented
\* by two spaces, EndIf) with the default options returns no edit.
C12_ScenarioA_Default ==
    (pc = "done" /\ request.kind = "full" /\ lines = ScenarioA
        /\ request.options = [tabSize |-> <<>>, insertSpaces |-> <<>>]) =>
        edits = <<>>

\* C12 amended: whole-document formatting of Scenario A returns no edit when
\* the request supplies tabSize = 2 (insertSpaces defaulting to true); with the
\* default options it returns one edit that replaces the whole document by
\* If x, four spaces + y(), EndIf.
C12_ScenarioA ==
    (pc = "done" /\ request.kind = "full" /\ lines = ScenarioA) =>
        /\ request.options = [tabSize |-> <<2>>, insertSpaces |-> <<>>] =>
            edits = <<>>
        /\ request.options = [tabSize |-> <<>>, insertSpaces |-> <<>>] =>
            edits = <<TextEditReplace(fullRange(text),
                        join(<<LIf, Str("    ") \o LY, LEndIf0>>, LF))>>

\* Scenario A was formatted with tabSize = 2 and nothing changed
C12_Witness ==
    /\ pc = "done" /\ request.kind = "full" /\ lines = ScenarioA
    /\ request.options.tabSize = <<2>>
    /\ out = ScenarioA
    /\ edits = <<>>

-----------------------------------------------------------------------------
(* C13 *)

\* The options values the indent renderer is applied to
IndentOptions == [tabSize : 1..MaxTabSize, insertSpaces : BOOLEAN]

\* s consists of exactly n characters c
IsRepeat(s, n, c) == Len(s) = n /\ \A k \in 1..Len(s) : s[k] = c

\* C13: Indent Renderer.  For every level >= 0 and every options value with
\* a positive tabSize, createIndent does not raise and renders exactly
\* level * tabSize spaces when insertSpaces is true and exactly level tabs,
\* whatever tabSize is, when insertSpaces is false; every non-blank line a
\* call has emitted starts with the indent so rendered for its level.
C13_IndentRenderer ==
    /\ \A level \in 0..MaxLevel, opts \in IndentOptions :
        LET r == createIndent(level, opts)
        IN  /\ ~r.threw
            /\ opts.insertSpaces => IsRepeat(r.value, level * opts.tabSize, Ord[" "])
            /\ ~opts.insertSpaces => IsRepeat(r.value, level, Ord["\t"])
    /\ Running =>
        \A k \in 1..Len(out) :
            ~IsBlank(lines[k]) =>
                LET n == LeadingWhiteSpace(out[k])
                    level == EmittedLevel(out[k], options)
                IN  /\ options.insertSpaces =>
                        IsRepeat(SubSeq(out[k], 1, n), level * options.tabSize,
                                 Ord[" "])
                    /\ ~options.insertSpaces =>
                        IsRepeat(SubSeq(out[k], 1, n), level, Ord["\t"])
                    /\ out[k] = SubSeq(out[k], 1, n) \o trim(lines[k])

\* With tabs and the default tabSize of 4 a line at level 2 got two tabs
C13_Witness ==
    /\ pc = "done" /\ Len(out) = 3
    /\ ~options.insertSpaces /\ options.tabSize = 4
    /\ out[3] = Str("\t\t") \o trim(lines[3])

-----------------------------------------------------------------------------
(* C14 *)

\* C14: Option defaults.  The options a call formats with have tabSize = 4
\* when the request omits tabSize and insertSpaces = TRUE when it omits
\* insertSpaces; a field the request supplies is used as supplied; and the
\* emitted lines are indented with the options so merged.
C14_OptionDefaults ==
    Running =>
        /\ request.options.tabSize = <<>> => options.tabSize = 4
        /\ request.options.insertSpaces = <<>> => options.insertSpaces = TRUE
        /\ request.options.tabSize # <<>> =>
            options.tabSize = request.options.tabSize[1]
        /\ request.options.insertSpaces # <<>> =>
            options.insertSpaces = request.options.insertSpaces[1]
        /\ pc = "done" =>
           out = formatPureBasicCode(join(lines, LF),
                     [tabSize |-> IF request.options.tabSize = <<>> THEN 4
                                  ELSE request.options.tabSize[1],
                      insertSpaces |->
                                  IF request.options.insertSpaces = <<>>
                                  THEN TRUE
                                  ELSE request.options.insertSpaces[1]],
                     initialState).out

\* A request that supplied only insertSpaces = FALSE was formatted with tabs
\* (tabSize defaulting to 4)
C14_Witness ==
    /\ pc = "done"
    /\ request.options = [tabSize |-> <<>>, insertSpaces |-> <<FALSE>>]
    /\ options = [tabSize |-> 4, insertSpaces |-> FALSE]
    /\ \E k \in 1..Len(out) : out[k] = Str("\t") \o trim(lines[k])

-----------------------------------------------------------------------------
(* C15 *)

\* The edits a request returns, as a function of the text and the request
Result(t, req) ==
    LET opts == mergeOptions(req.options)
    IN  IF req.kind = "full" THEN
            LET formatted == formatPureBasicCode(t, opts, <<>>).text
            IN  IF formatted = t THEN <<>>
                ELSE <<TextEditReplace(fullRange(t), formatted)>>
        ELSE
            LET expanded == expandToFullLines(t, req.range[1])
                st == computeInitialFormatterState(
                          slice0(split(t, LF), expanded.start.line))
                formatted == formatPureBasicCode(getText(t, expanded), opts,
                                                 <<st>>).text
            IN  IF formatted = getText(t, expanded) THEN <<>>
                ELSE <<TextEditReplace(expanded, formatted)>>

\* C15: Invocation independence.  Whatever calls ran before, a whole-document
\* call starts from {indentLevel 0, inSelect false, selectBaseIndent 0,
\* caseActive false} and a range call from the state reconstructed from the
\* lines of the text before the range; the state and the output of a running
\* call are those of the loop run from that start on the lines processed so
\* far; and the edits returned are a function of (text, range, options).
C15_InvocationIndependence ==
    Running =>
        LET start == IF request.kind = "full"
                     THEN [indentLevel |-> 0, inSelect |-> FALSE,
                           selectBaseIndent |-> 0, caseActive |-> FALSE]
                     ELSE computeInitialFormatterState(
                              slice0(TextLines, replaceRange.start.line))
            run == FormatLines(SubSeq(lines, 1, i), 1, start,
                               mergeOptions(request.options), <<>>)
        IN  /\ CurrentState = run.state
            /\ out = run.out
            /\ i = 0 => CurrentState = start
            /\ pc = "done" => edits = Result(text, request)

\* A call has ended three levels deep inside a Select and the server waits
\* for the next request
C15_Witness ==
    /\ pc = "idle" /\ request.kind = "full"
    /\ indentLevel = 3 /\ inSelect /\ caseActive
    /\ TextLines # lines

-----------------------------------------------------------------------------
(* Single transitions: the line a call processed last, and the last line
   before a range as the state reconstructor processed it *)

\* A line that is neither blank, nor a comment, nor an inline net-zero block
IsStatement(raw) ==
    /\ ~IsBlank(raw) /\ ~IsComment(raw)
    /\ ~hasInlineNetZero(Code(raw))

IsTransferLine(raw) == IsStatement(raw) /\ isMiddle(Code(raw))

IsEndSelectLine(raw) == IsStatement(raw) /\ isEndSelect(Code(raw))

IsSelectLine(raw) == IsStatement(raw) /\ isSelect(Code(raw))

IsCaseLine(raw) == IsStatement(raw) /\ isCase(Code(raw))

IsPlainCloserLine(raw) == IsStatement(raw) /\ isClosing(Code(raw))

\* The formatter has processed a line
Processed == Running /\ i >= 1

\* A range call whose range starts below the first line of the text
HasPrefix ==
    Running /\ request.kind = "range" /\ replaceRange.start.line >= 1

\* The last line before the range
PrefixLast == TextLines[replaceRange.start.line]

\* The state of computeInitialFormatterState before that line and after it
PrefixBefore ==
    computeInitialFormatterState(
        SubSeq(TextLines, 1, replaceRange.start.line - 1))

PrefixAfter == initialState[1]

-----------------------------------------------------------------------------
(* C16 *)

\* C16: Block-transfer is net-zero.  In every state, a transfer line (Else,
\* ElseIf, CompilerElse, CompilerElseIf) that is not an inline net-zero line
\* is emitted at max(0, indentLevel - 1) and indentLevel after the line equals
\* indentLevel before it, in the formatter and in the state reconstructor.
C16_TransferNetZero ==
    /\ (Processed /\ IsTransferLine(lines[i])) =>
        /\ IsAtLevel(out[i], lines[i], Max(0, StateBefore(i).indentLevel - 1),
                     options)
        /\ indentLevel = StateBefore(i).indentLevel
    /\ (HasPrefix /\ IsTransferLine(PrefixLast)) =>
        PrefixAfter.indentLevel = PrefixBefore.indentLevel

-----------------------------------------------------------------------------
(* C17 *)

\* The state st after EndSelect: the Select is closed at its base when one is
\* open, else one level is closed
AfterEndSelect(st) ==
    IF st.inSelect
    THEN [indentLevel |-> st.selectBaseIndent, inSelect |-> FALSE,
          selectBaseIndent |-> st.selectBaseIndent, caseActive |-> FALSE]
    ELSE [st EXCEPT !.indentLevel = Max(0, st.indentLevel - 1)]

\* C17: Branch-closer transition.  An EndSelect line that is not an inline
\* net-zero line, processed while inSelect is true, is emitted at
\* selectBaseIndent and sets indentLevel = selectBaseIndent, inSelect = FALSE,
\* caseActive = FALSE, whatever blocks were left open inside the Select;
\* processed while inSelect is false it is emitted at max(0, indentLevel - 1),
\* sets indentLevel to that value and leaves the other three fields as they
\* were.  The state reconstructor makes the same transition.
C17_EndSelectTransition ==
    /\ (Processed /\ IsEndSelectLine(lines[i])) =>
        LET b == StateBefore(i)
        IN  /\ IsAtLevel(out[i], lines[i],
                         IF b.inSelect THEN b.selectBaseIndent
                         ELSE Max(0, b.indentLevel - 1), options)
            /\ CurrentState = AfterEndSelect(b)
    /\ (HasPrefix /\ IsEndSelectLine(PrefixLast)) =>
        PrefixAfter = AfterEndSelect(PrefixBefore)

\* EndSelect closed a Select with an If left open inside it
C17_Witness ==
    /\ pc = "done" /\ request.kind = "full"
    /\ lines = <<LSelect, LIf, LEndSelect>>
    /\ StateBefore(3).indentLevel = 2 /\ StateBefore(3).inSelect
    /\ out[3] = LEndSelect
    /\ indentLevel = 0 /\ ~inSelect

-----------------------------------------------------------------------------
(* C18 *)

\* C18: Branch-opener transition.  A Select line that is not an inline
\* net-zero line is emitted at the current indentLevel L, and afterwards
\* selectBaseIndent = L, inSelect = TRUE, caseActive = FALSE and
\* indentLevel = L + 1.  The state reconstructor makes the same transition.
C18_SelectTransition ==
    /\ (Processed /\ IsSelectLine(lines[i])) =>
        LET L == StateBefore(i).indentLevel
        IN  /\ IsAtLevel(out[i], lines[i], L, options)
            /\ CurrentState = [indentLevel |-> L + 1, inSelect |-> TRUE,
                               selectBaseIndent |-> L, caseActive |-> FALSE]
    /\ (HasPrefix /\ IsSelectLine(PrefixLast)) =>
        PrefixAfter = [indentLevel |-> PrefixBefore.indentLevel + 1,
                       inSelect |-> TRUE,
                       selectBaseIndent |-> PrefixBefore.indentLevel,
                       caseActive |-> FALSE]

\* A Select was opened inside the Case of another Select
C18_Witness ==
    /\ Processed /\ i = 3 /\ request.kind = "full"
    /\ lines[1] = LSelect /\ lines[2] = LCase /\ lines[3] = LSelect
    /\ StateBefore(3).caseActive
    /\ selectBaseIndent = 2 /\ indentLevel = 3 /\ ~caseActive

-----------------------------------------------------------------------------
(* C19 *)

\* The state st after a Case or Default line inside a Select
AfterCase(st) ==
    [st EXCEPT !.caseActive = TRUE, !.indentLevel = st.selectBaseIndent + 2]

\* The formatter's half of C19
FormatterCaseTransition ==
    (Processed /\ IsCaseLine(lines[i]) /\ StateBefore(i).inSelect) =>
        /\ IsAtLevel(out[i], lines[i], StateBefore(i).selectBaseIndent + 1,
                     options)
        /\ CurrentState = AfterCase(StateBefore(i))

\* The state reconstructor's half of C19
ReconstructorCaseTransition ==
    (HasPrefix /\ IsCaseLine(PrefixLast) /\ PrefixBefore.inSelect) =>
        PrefixAfter = AfterCase(PrefixBefore)

\* C19: Case-label transition.  A Case or Default line that is not an inline
\* net-zero line, processed while inSelect is true, is emitted at
\* selectBaseIndent + 1 whatever indentLevel is, and afterwards
\* caseActive = TRUE and indentLevel = selectBaseIndent + 2, with inSelect
\* and selectBaseIndent unchanged, in the formatter and in the state
\* reconstructor.
C19_CaseTransition == FormatterCaseTransition /\ ReconstructorCaseTransition

-----------------------------------------------------------------------------
(* C20 *)

\* The state st after a plain closing line
AfterCloser(st) == [st EXCEPT !.indentLevel = Max(0, st.indentLevel - 1)]

\* The formatter's half of C20
FormatterCloserTransition ==
    (Processed /\ IsPlainCloserLine(lines[i])) =>
        /\ IsAtLevel(out[i], lines[i], Max(0, StateBefore(i).indentLevel - 1),
                     options)
        /\ CurrentState = AfterCloser(StateBefore(i))

\* The state reconstructor's half of C20
ReconstructorCloserTransition ==
    (HasPrefix /\ IsPlainCloserLine(PrefixLast)) =>
        PrefixAfter = AfterCloser(PrefixBefore)

\* C20: Block-closer transition.  A plain closing line (EndIf, Next, Wend,
\* Until, ForEver, EndProcedure, EndMacro, ...) that is not an inline net-zero
\* line is emitted at max(0, indentLevel - 1) and sets indentLevel to that
\* value, with or without an opener before it, in the formatter and in the
\* state reconstructor; no call raises.
C20_CloserTransition ==
    /\ FormatterCloserTransition
    /\ ReconstructorCloserTransition
    /\ pc # "threw"

-----------------------------------------------------------------------------
(* C21 *)

IsPlainOpenerLine(raw) == IsStatement(raw) /\ isOpening(Code(raw))

\* The state st after a plain opening line
AfterOpener(st) == [st EXCEPT !.indentLevel = st.indentLevel + 1]

\* The formatter's half of C21
FormatterOpenerTransition ==
    (Processed /\ IsPlainOpenerLine(lines[i])) =>
        /\ IsAtLevel(out[i], lines[i], StateBefore(i).indentLevel, options)
        /\ CurrentState = AfterOpener(StateBefore(i))

\* The state reconstructor's half of C21
ReconstructorOpenerTransition ==
    (HasPrefix /\ IsPlainOpenerLine(PrefixLast)) =>
        PrefixAfter = AfterOpener(PrefixBefore)

\* C21: Block-opener transition.  A plain opening line (Procedure, If, For,
\* ForEach, While, Repeat, With, Module, Structure, Macro, CompilerIf, ...)
\* that is not an inline net-zero line is emitted at the current indentLevel
\* and then increases indentLevel by exactly 1, leaving inSelect,
\* selectBaseIndent and caseActive as they were, in the formatter and in the
\* state reconstructor.
C21_OpenerTransition ==
    FormatterOpenerTransition /\ ReconstructorOpenerTransition

-----------------------------------------------------------------------------
(* C22 *)

\* A statement that starts with none of the structural keywords
IsPlainStatement(raw) ==
    /\ IsStatement(raw)
    /\ ~isEndSelect(Code(raw)) /\ ~isSelect(Code(raw)) /\ ~isCase(Code(raw))
    /\ ~isClosing(Code(raw)) /\ ~isMiddle(Code(raw)) /\ ~isOpening(Code(raw))

\* C22: State-preserving lines.  In every reachable state a blank line is
\* emitted as an empty line, a comment line and a plain statement are emitted
\* at the current indentLevel, and none of the three changes any field of the
\* formatter's state.
C22_StatePreservingLines ==
    Processed =>
        /\ IsBlank(lines[i]) =>
            out[i] = <<>> /\ CurrentState = StateBefore(i)
        /\ (IsComment(lines[i]) \/ IsPlainStatement(lines[i])) =>
            /\ IsAtLevel(out[i], lines[i], StateBefore(i).indentLevel, options)
            /\ CurrentState = StateBefore(i)

\* A plain statement and then a blank line were processed between a Select
\* and its first Case
C22_Witness ==
    /\ pc = "done" /\ request.kind = "full"
    /\ lines = <<LSelect, LPlain, LBlank>>
    /\ out[2] = createIndent(1, options).value \o LFoo
    /\ out[3] = <<>>
    /\ CurrentState = [indentLevel |-> 1, inSelect |-> TRUE,
                       selectBaseIndent |-> 0, caseActive |-> FALSE]

-----------------------------------------------------------------------------
(* C23 *)

\* In the state st a Select is open, no Case of it has been seen, and the
\* level is below the inner level of the Select
BelowInnerLevel(st) ==
    st.inSelect /\ ~st.caseActive /\ st.indentLevel < st.selectBaseIndent + 1

\* C23: Forward pinning.  Between a Select and its first Case (inSelect true,
\* caseActive false) indentLevel >= selectBaseIndent + 1 holds after every
\* processed line of the formatter and in every state the state reconstructor
\* hands to it, so a closer or transfer line placed there leaves the level of
\* the following lines at the inner level of the Select or deeper.
C23_ForwardPinning ==
    Running =>
        /\ ~BelowInnerLevel(CurrentState)
        /\ initialState # <<>> => ~BelowInnerLevel(initialState[1])

\* A closer and a transfer line were processed between a Select and its first
\* Case, the closer was emitted at the level of the Select, and the level
\* after them is the inner level of the Select
C23_Witness ==
    /\ pc = "done" /\ request.kind = "full"
    /\ lines = <<LSelect, LEndIf, LElse>>
    /\ out[2] = trim(LEndIf) /\ out[3] = LElse
    /\ inSelect /\ ~caseActive
    /\ selectBaseIndent = 0 /\ indentLevel = 1

-----------------------------------------------------------------------------
(* C24 *)

\* The index of the last Select or EndSelect line of ls, 0 when there is none
RECURSIVE LastSelectMark(_, _)
LastSelectMark(ls, k) ==
    IF k = 0 THEN 0
    ELSE IF IsSelectLine(ls[k]) \/ IsEndSelectLine(ls[k]) THEN k
    ELSE LastSelectMark(ls, k - 1)

\* After the lines ls a Select is open and a Case or Default of it was seen
CaseSeenIn(ls) ==
    LET m == LastSelectMark(ls, Len(ls))
    IN  /\ m > 0
        /\ IsSelectLine(ls[m])
        /\ \E k \in (m + 1)..Len(ls) : IsCaseLine(ls[k])

\* The formatter's half of C24
FormatterCaseSeen ==
    (Running /\ request.kind = "full") =>
        caseActive = CaseSeenIn(SubSeq(lines, 1, i))

\* The state reconstructor's half of C24: the initial state of a range call
ReconstructorCaseSeen ==
    (Running /\ request.kind = "range") =>
        initialState[1].caseActive
            = CaseSeenIn(SubSeq(TextLines, 1, replaceRange.start.line))

\* C24: caseSeen meaning.  In every state the formatter is in, including the
\* initial state handed to it for range formatting, caseActive is true if and
\* only if a Select is open and at least one Case or Default of that Select
\* has been processed; it is false after every Select and every EndSelect.
C24_CaseSeenMeaning == FormatterCaseSeen /\ ReconstructorCaseSeen

-----------------------------------------------------------------------------
(* C25 *)

\* C25: Branch-entry invariant.  In the state immediately after a Select line
\* is processed, inSelect is true and selectBaseIndent <= indentLevel;
\* indentLevel is exactly selectBaseIndent + 1.
C25_BranchEntry ==
    (Processed /\ IsSelectLine(lines[i])) =>
        /\ inSelect
        /\ selectBaseIndent <= indentLevel
        /\ indentLevel = selectBaseIndent + 1

\* A Select was entered two levels deep
C25_Witness ==
    /\ Processed /\ i = 3 /\ request.kind = "full"
    /\ lines[1] = LIf /\ lines[2] = LIf /\ lines[3] = LSelect
    /\ inSelect /\ selectBaseIndent = 2 /\ indentLevel = 3

-----------------------------------------------------------------------------
(* C26 *)

\* C26: Case label outside a Select.  A line beginning with Case or Default
\* processed while inSelect is false is treated as a plain statement: it is
\* emitted at the current indentLevel and changes no field of the state, in
\* the formatter and in the state reconstructor.
C26_CaseOutsideSelect ==
    /\ (Processed /\ IsCaseLine(lines[i]) /\ ~StateBefore(i).inSelect) =>
        /\ IsAtLevel(out[i], lines[i], StateBefore(i).indentLevel, options)
        /\ CurrentState = StateBefore(i)
    /\ (HasPrefix /\ IsCaseLine(PrefixLast) /\ ~PrefixBefore.inSelect) =>
        PrefixAfter = PrefixBefore

\* A Case was processed inside an If with no Select open
C26_Witness ==
    /\ pc = "done" /\ request.kind = "full"
    /\ lines = <<LIf, LIf, LCase>>
    /\ out[3] = createIndent(2, options).value \o LCase1
    /\ CurrentState = [indentLevel |-> 2, inSelect |-> FALSE,
                       selectBaseIndent |-> 0, caseActive |-> FALSE]

-----------------------------------------------------------------------------
(* C27 *)

\* The block families: the opening and the closing keywords of each
Families ==
    {[open |-> {"If"}, close |-> {"EndIf"}],
     [open |-> {"For", "ForEach"}, close |-> {"Next"}],
     [open |-> {"While"}, close |-> {"Wend"}],
     [open |-> {"Repeat"}, close |-> {"Until", "ForEver"}],
     [open |-> {"Select"}, close |-> {"EndSelect"}],
     [open |-> {"With"}, close |-> {"EndWith"}],
     [open |-> ProcedureWords, close |-> {"EndProcedure"}],
     [open |-> {"Module"}, close |-> {"EndModule"}],
     [open |-> {"DeclareModule"}, close |-> {"EndDeclareModule"}],
     [open |-> {"Structure"}, close |-> {"EndStructure"}],
     [open |-> {"Interface"}, close |-> {"EndInterface"}],
     [open |-> {"Enumeration"}, close |-> {"EndEnumeration"}],
     [open |-> {"Macro"}, close |-> {"EndMacro"}],
     [open |-> {"DataSection"}, close |-> {"EndDataSection"}],
     [open |-> {"CompilerIf"}, close |-> {"CompilerEndIf"}],
     [open |-> {"CompilerSelect"}, close |-> {"CompilerEndSelect"}]}

\* The sanitized text of raw has, as whole words, an opening and a closing
\* keyword of one family
IsFamilyNetZero(raw) ==
    /\ ~IsBlank(raw) /\ ~IsComment(raw)
    /\ \E f \in Families :
        /\ containsWord(f.open, Code(raw))
        /\ containsWord(f.close, Code(raw))

\* The formatter's half of C27
FormatterDetector ==
    /\ Running =>
        \A k \in 1..Len(lines) :
            (~IsBlank(lines[k]) /\ ~IsComment(lines[k])) =>
                hasInlineNetZero(Code(lines[k])) = IsFamilyNetZero(lines[k])
    /\ ~hasInlineNetZero(Code(LIfNext))
    /\ (Processed /\ IsFamilyNetZero(lines[i])) =>
        /\ IsAtLevel(out[i], lines[i], StateBefore(i).indentLevel, options)
        /\ CurrentState = StateBefore(i)

\* The state reconstructor's half of C27
ReconstructorDetector ==
    /\ HasPrefix =>
        /\ (~IsBlank(PrefixLast) /\ ~IsComment(PrefixLast)) =>
            initHasInlineNetZero(Code(PrefixLast)) = IsFamilyNetZero(PrefixLast)
        /\ IsFamilyNetZero(PrefixLast) => PrefixAfter = PrefixBefore
    /\ ~initHasInlineNetZero(Code(LIfNext))

\* C27: Inline-Block Detector.  A line is net-zero if and only if its
\* sanitized text contains, as whole words anywhere on the line, an opening
\* and a closing keyword of the same block family; an opener with a closer of
\* another family (If x : Next) is not net-zero; and a net-zero line makes no
\* transition, in the formatter and in the state reconstructor.
C27_InlineDetector == FormatterDetector /\ ReconstructorDetector

-----------------------------------------------------------------------------
(* C28 *)

\* Lines with a keyword or a ; inside a string or a comment
QuotingLines == {LIfComment, LDebugString, LIfSemi, LIfQuoted}

\* The statement that remains of such a line: the line without its comment
\* and without the contents of its strings
Denoted(raw) ==
    CASE raw = LIfComment -> Str("If x ")
      [] raw = LDebugString -> Str("Debug \"\"")
      [] raw = LIfSemi ->
            Str("If s=\"\" : EndIf")
      [] raw = LIfQuoted ->
            Str("If c='' : x=\"\"")
      [] OTHER -> raw

\* C28: Code Sanitizer.  A keyword that occurs only inside a double- or
\* single-quoted string or after an unquoted ; never affects classification or
\* net-zero detection, and a ; inside an open string does not start a
\* comment: If x ; EndIf is an opener, Debug "EndIf" a plain statement,
\* If s=";" : EndIf a net-zero line, If c=';' : x="EndIf" an opener; each such
\* line makes the transition of the statement that remains of it and is
\* emitted with its own content at that statement's level, in the formatter
\* and in the state reconstructor.
C28_CodeSanitizer ==
    /\ IsPlainOpenerLine(LIfComment)
    /\ IsPlainStatement(LDebugString)
    /\ IsNetZero(LIfSemi)
    /\ IsPlainOpenerLine(LIfQuoted)
    /\ (Processed /\ lines[i] \in QuotingLines) =>
        LET r == FormatLine(StateBefore(i), Denoted(lines[i]), options)
        IN  /\ CurrentState = r.state
            /\ out[i] = createIndent(EmittedLevel(r.line, options),
                                     options).value \o trim(lines[i])
    /\ (HasPrefix /\ PrefixLast \in QuotingLines) =>
        PrefixAfter = InitLine(PrefixBefore, Denoted(PrefixLast))

\* If s=";" : EndIf was processed inside an If as a net-zero line, and then
\* If x ; EndIf opened a level
C28_Witness ==
    /\ pc = "done" /\ request.kind = "full"
    /\ lines = <<LIfQuoted, LIfSemi, LIfComment>>
    /\ out[2] = createIndent(1, options).value \o LIfSemi
    /\ out[3] = createIndent(1, options).value \o LIfComment
    /\ indentLevel = 2

-----------------------------------------------------------------------------
(* C29 *)

\* The indices of the openers (Select included) among the first k lines of ls
\* that are still open after them, innermost last
RECURSIVE OpenStack(_, _)
OpenStack(ls, k) ==
    IF k = 0 THEN <<>>
    ELSE LET s == OpenStack(ls, k - 1)
         IN  IF IsPlainOpenerLine(ls[k]) \/ IsSelectLine(ls[k])
             THEN Append(s, k)
             ELSE IF (IsPlainCloserLine(ls[k]) \/ IsEndSelectLine(ls[k]))
                        /\ s # <<>>
             THEN SubSeq(s, 1, Len(s) - 1)
             ELSE s

\* The opener that encloses line k of ls
Enclosing(ls, k) ==
    LET s == OpenStack(ls, k - 1) IN s[Len(s)]

\* C29: Well-nested documents return to the start state.  For every document
\* in which each opener has its matching closer in properly nested order
\* (blocks inside blocks, Else inside If, a Select inside a case body of
\* another Select), whole-document formatting emits every closer at the level
\* of its opener and every Case or Default at the level of its own Select
\* plus one, and after the last line indentLevel is 0 and inSelect is false.
C29_WellNested ==
    (/\ pc = "done" /\ request.kind = "full"
     /\ TextLines \in WellNested(MaxDepth)) =>
        /\ \A k \in 1..Len(lines) :
            /\ (IsPlainCloserLine(lines[k]) \/ IsEndSelectLine(lines[k])) =>
                EmittedLevel(out[k], options)
                    = EmittedLevel(out[Enclosing(lines, k)], options)
            /\ IsCaseLine(lines[k]) =>
                EmittedLevel(out[k], options)
                    = EmittedLevel(out[Enclosing(lines, k)], options) + 1
        /\ indentLevel = 0
        /\ ~inSelect

-----------------------------------------------------------------------------
(* C30 *)

\* The level is below the base of the open Select
BelowAnchor(st) == st.inSelect /\ st.indentLevel < st.selectBaseIndent

\* C30 as stated: Branch anchor invariant in every state.  After any sequence
\* of lines, whenever inSelect is true, selectBaseIndent <= indentLevel: not
\* only immediately after the Select but also after Case labels, closers and
\* transfers inside the construct.
C30_BranchAnchorEveryState ==
    Running =>
        /\ ~BelowAnchor(CurrentState)
        /\ initialState # <<>> => ~BelowAnchor(initialState[1])

\* C30: Branch anchor invariant.  Whenever inSelect is true,
\* selectBaseIndent <= indentLevel holds while caseActive is false,
\* immediately after a Select line and immediately after a Case label of the
\* open Select, and in every state the state reconstructor hands to the
\* formatter; after a Case label, closers can lower indentLevel below
\* selectBaseIndent.
C30_BranchAnchor ==
    Running =>
        /\ ~caseActive => ~BelowAnchor(CurrentState)
        /\ (Processed /\ (IsSelectLine(lines[i]) \/ IsCaseLine(lines[i]))) =>
              ~BelowAnchor(CurrentState)
        /\ initialState # <<>> => ~BelowAnchor(initialState[1])

\* Three closers after the Case of a Select inside an If were processed: the
\* Select is still open and the level is below its base
C30_Witness ==
    /\ pc = "done" /\ request.kind = "full"
    /\ lines = <<LIf, LSelect, LCase1, LEndIf0, LEndIf0, LEndIf0>>
    /\ inSelect /\ caseActive
    /\ selectBaseIndent = 1 /\ indentLevel = 0

-----------------------------------------------------------------------------
(* C31 *)

\* The text after range formatting of the lines a..b was requested with the
\* options o and the returned edits were applied
RangeFormatted(t, a, b, o) ==
    ApplyEdits(t, Result(t, [kind |-> "range",
                             range |-> <<RangeOf(Position(a, 1), Position(b, 1))>>,
                             options |-> o]))

\* C31: Range splitting.  For any document and any lines a <= b < c, range
\* formatting of a..b and then of b+1..c, in either order, yields the same
\* document as range formatting of a..c once.
C31_RangeSplitting ==
    (pc = "done" /\ request.kind = "range") =>
        LET a == request.range[1].start.line
            c == request.range[1].end.line
            o == request.options
            once == ApplyEdits(text, edits)
        IN  \A b \in a..(c - 1) :
              /\ RangeFormatted(RangeFormatted(text, a, b, o), b + 1, c, o) = once
              /\ RangeFormatted(RangeFormatted(text, b + 1, c, o), a, b, o) = once

-----------------------------------------------------------------------------

(* The maps of the ProjectManager *)

\* The project document with this content lists the file of the document uri,
\* as line 154 decides it
Lists(projectUri, content, uri) ==
    LET parsedProject == parseProjectFile(projectUri, content)
    IN  /\ parsedProject # <<>>
        /\ Matching(<<[key |-> projectUri,
                       value |-> [project |-> parsedProject[1].project]]>>,
                    fsPath(uri)) # <<>>

\* C32: after every event, every value of fileToProject is the URI of a
\* loaded project and every mapped file is among the includedFiles of that
\* project; and when a project document is closed, each file that was mapped
\* to it is no longer in a project (isFileInProject false, getFileProject
\* null).
C32_MapConsistency ==
    [][/\ \A f \in DOMAIN managerFileToProject' :
            LET p == managerFileToProject'[f]
            IN  /\ p \in KeySet(managerProjects')
                /\ f \in OrderedGet(managerProjects', p)[1].includedFiles
       /\ \A p \in ProjectUris :
            (documents[p] # <<>> /\ documents'[p] = <<>>) =>
                \A f \in DOMAIN managerFileToProject :
                    managerFileToProject[f] = p =>
                        /\ ~isFileInProject(ManagerState', f)
                        /\ getFileProject(ManagerState', f) = <<>>
      ]_vars

\* A project document was closed while a document it lists is open and a
\* document is mapped to the other project
C32_Witness ==
    /\ lastStep.handler = "onDocumentClose"
    /\ lastStep.uri \in ProjectUris
    /\ \E f \in SourceUris :
          /\ documents[f] # <<>>
          /\ Lists(lastStep.uri, lastStep.content, f)
          /\ ~isFileInProject(ManagerState, f)
    /\ \E g \in SourceUris :
          /\ isFileInProject(ManagerState, g)
          /\ getFileProject(ManagerState, g) # <<>>

\* C33: whenever a project document that lists the file of a document and
\* that document are both open, the document is associated with an open
\* project that lists it, whichever was opened first and also after a change
\* of the project document.
C33_AssociationOrderIndependent ==
    \A p \in ProjectUris, f \in SourceUris :
        (/\ documents[p] # <<>>
         /\ documents[f] # <<>>
         /\ Lists(p, documents[p][1], f)) =>
            LET project == getFileProject(ManagerState, f)
            IN  /\ project # <<>>
                /\ documents[project[1].projectFile] # <<>>
                /\ Lists(project[1].projectFile,
                         documents[project[1].projectFile][1], f)

\* The names a source text defines, as parseFileSymbols finds them
Defines(uri, content) == DOMAIN parseFileSymbols(uri, content, EmptyMap)

\* C34: for every document associated with a project and every name,
\* findSymbolDefinition is non-null exactly when the current content of some
\* document associated with that project defines the name.
C34_SymbolTableTracksFiles ==
    \A f \in SourceUris, name \in SymbolNames :
        LET project == getFileProject(ManagerState, f)
        IN  project # <<>> =>
              ((findSymbolDefinition(ManagerState, name, f) # <<>>)
                 <=> \E g \in project[1].includedFiles :
                        /\ documents[g] # <<>>
                        /\ name \in Defines(g, documents[g][1]))

-----------------------------------------------------------------------------

(* The cache of the ProjectService *)

\* C35: a step that completes refresh, called directly or by initialize(),
\* leaves activeProjectFile unchanged if that project is among the projects
\* of the map; otherwise it becomes the first project of the map, or
\* undefined together with activeTargetName when the map is empty.
C35_RefreshKeepsActive ==
    [][(lastStep'.handler = "refresh" /\ lastStep'.ends) =>
          IF /\ activeProjectFile # <<>>
             /\ activeProjectFile[1] \in KeySet(serviceProjects')
          THEN activeProjectFile' = activeProjectFile
          ELSE IF serviceProjects' # <<>>
               THEN activeProjectFile' = <<serviceProjects'[1].key>>
               ELSE activeProjectFile' = <<>> /\ activeTargetName' = <<>>
      ]_vars

\* C36: when onPbpFileChanged goes on after a file that could not be read or
\* parsed, the projects map, with the project cached for that file, the
\* active project and the active target stay as they were, and no
\* active-context event is fired.
C36_ParseFailureKeepsCache ==
    [][(lastStep'.handler = "onPbpFileChanged" /\ ~lastStep'.parsed) =>
          /\ serviceProjects' = serviceProjects
          /\ activeProjectFile' = activeProjectFile
          /\ activeTargetName' = activeTargetName
          /\ fired' = <<>>
      ]_vars

\* A change event ended in a failed read while the project of the file was
\* cached and active
C36_Witness ==
    /\ lastStep.handler = "onPbpFileChanged"
    /\ ~lastStep.parsed
    /\ lastStep.path \in KeySet(serviceProjects)
    /\ activeProjectFile = <<normalizeFsPath(lastStep.path)>>
    /\ activeTargetName # <<>>

\* C37: a step that puts the project of a .pbp file into the projects map
\* belongs to a call that started after the last deletion of that file was
\* handled: a call that was awaiting when onPbpFileDeleted ran does not put
\* the project back.
C37_DeletionWins ==
    [][\A k \in PbpPaths :
          (/\ normalizeFsPath(k) \notin KeySet(serviceProjects)
           /\ normalizeFsPath(k) \in KeySet(serviceProjects')) =>
              ~(lastStep'.path = k /\ lastStep'.stale)
      ]_vars

\* C38: when no call is awaiting, getProjectForFile of a file gives a project
\* only if that project is in the projects map and its file list contains
\* the file.
C38_LookupReflectsContents ==
    tasks = EmptyBag =>
        \A path \in {PathA, PathB} :
            LET proj == getProjectForFile(ServiceState, path)
            IN  proj # <<>> =>
                  /\ \E n \in 1..Len(serviceProjects) :
                        serviceProjects[n].value = proj[1]
                  /\ \E n \in 1..Len(proj[1].files) :
                        normalizeFsPath(proj[1].files[n].fsPath) =
                            normalizeFsPath(path)

=============================================================================
